---------------------------- MODULE Spec2Model ----------------------------
(***************************************************************************)
(* EnhanceIO transparent traffic capture (Driver/enhanceio/eio_ttc.c).     *)
(*                                                                         *)
(* The registry of cache bindings (eio_ttc_list / eio_ttc_lock), the       *)
(* interception function eio_make_request_fn, activation and deactivation, *)
(* the reference-counted dispatch engine (eio_do_io) and the overlap       *)
(* splitter (eio_overlap_split_bio).                                       *)
(***************************************************************************)
EXTENDS Integers, Sequences, FiniteSets, TLC

(***************************************************************************)
(* Bounds of the model.                                                    *)
(***************************************************************************)
\* sectors of a whole disk: 0 .. DiskSectors-1
DiskSectors == 6
\* the most physical transfers one dispatched I/O is split into
MaxK == 3
\* the most sectors of an overlapping bio that is split
MaxSplit == 3
\* the most dirty blocks a write-back cache holds
MaxDirty == 2
\* number of shards of the registry in the model (eio.h sets 1024; a small
\* table makes two devices share a shard, the case the scans must filter)
HashTblSize == 1

(***************************************************************************)
(* errno values                                                            *)
(***************************************************************************)
EINVAL == 22
ENOMEM == 12
EIO == 5
ENODEV == 19
EOPNOTSUPP == 95

(***************************************************************************)
(* Block devices.  A block device is <<disk, part>>; part 0 is the whole   *)
(* disk (bdev == bdev->bd_contains).  Every disk carries the same          *)
(* partition table: partition p covers sectors [2p-1, 2p].                 *)
(***************************************************************************)
Disks == {1, 2}
Shards == 0 .. (HashTblSize - 1)

bd_contains(b) == <<b[1], 0>>
start_sect(b) == IF b[2] = 0 THEN 0 ELSE 2 * b[2] - 1
nr_sects(b) == IF b[2] = 0 THEN DiskSectors ELSE 2

\* EIO_HASH_BDEV(bdev->bd_contains->bd_dev)
EIO_HASH_BDEV(disk) == disk % HashTblSize

(***************************************************************************)
(* make_request_fn values: the interception function, the entry point a    *)
(* disk's queue had before interception, and the null pointer.             *)
(***************************************************************************)
eio_make_request_fn == <<"eio_make_request_fn", 0>>
OrigMfn(disk) == <<"blk_queue_bio", disk>>
NULL == <<"NULL", 0>>

EIO_DEV_NONE == "none"
EIO_DEV_PARTITION == "EIO_DEV_PARTITION"
EIO_DEV_WHOLE_DISK == "EIO_DEV_WHOLE_DISK"

CACHE_MODE_WB == "CACHE_MODE_WB"
CACHE_MODE_WT == "CACHE_MODE_WT"
CACHE_MODE_RO == "CACHE_MODE_RO"
\* eio_cache_edit's mode argument 0 and policy argument 0: leave it as it is
NoMode == "0"
NoPolicy == "0"
CACHE_REPL_FIFO == "CACHE_REPL_FIFO"
CACHE_REPL_LRU == "CACHE_REPL_LRU"

\* values of eio_reboot_notified
EIO_REBOOT_HANDLING_NONE == "none"
EIO_REBOOT_HANDLING_INPROG == "EIO_REBOOT_HANDLING_INPROG"
EIO_REBOOT_HANDLING_DONE == "EIO_REBOOT_HANDLING_DONE"

\* bits of dmc->sysctl_active.do_clean
EIO_CLEAN_KEEP == "EIO_CLEAN_KEEP"
EIO_CLEAN_START == "EIO_CLEAN_START"

\* bits of dmc->cache_flags
CACHE_FLAGS_MOD_INPROG == "CACHE_FLAGS_MOD_INPROG"
CACHE_FLAGS_SHUTDOWN_INPROG == "CACHE_FLAGS_SHUTDOWN_INPROG"
CACHE_FLAGS_DELETED == "CACHE_FLAGS_DELETED"

(***************************************************************************)
(* The cache_c objects callers create, each on the source device the       *)
(* caller opened for it (dmc->disk_dev->bdev).  An object is activated at  *)
(* most once; creating a cache again on the same device uses a new object. *)
(***************************************************************************)
CacheBdev == << <<1, 1>>, <<1, 2>>, <<1, 1>>, <<1, 0>>, <<2, 0>>, <<2, 1>> >>
Dmc == 1 .. Len(CacheBdev)
\* the threads that carry a bio through eio_make_request_fn
IoThreads == {1}
\* the callers of eio_cache_edit and of eio_reboot_handling
EditCallers == {1, 2}
RebootCallers == {1, 2}

VARIABLES
    eio_ttc_list,       \* [Shards -> Seq(Dmc)]: the shard lists, in list order
    eio_ttc_lock,       \* [Shards -> [writer, readers]]: the rw_semaphores
    make_request_fn,    \* [Disks -> mfn]: rq->make_request_fn of each disk
    cache,              \* [Dmc -> cache_c fields and the caller's position]
    bio,                \* [IoThreads -> the bio a thread carries through eio_make_request_fn]
    io,                 \* the eio_context of the dispatched I/O and what was signalled
    xfer,               \* [1 .. K -> the physical transfers of the dispatched I/O]
    disp,               \* the caller of eio_do_io: its position and return value
    bc,                 \* the bio_container of the overlap splitter
    sub,                \* [1 .. nbios -> the sub-bios of the split]
    split,              \* the caller of eio_overlap_split_bio and the original bio
    edit,               \* [EditCallers -> a caller of eio_cache_edit: position, arguments, error]
    un,                 \* the dispatch of one region by eio_dispatch_io: its unaligned sub-I/Os and the data
    ls,                 \* the caller of eio_get_cache_list: position, arguments, records written
    reboot              \* eio_reboot_notified, the EIO_HANDLE_REBOOT bit and the callers of eio_reboot_handling

ctl_vars == <<edit, reboot>>
ttc_vars == <<eio_ttc_list, eio_ttc_lock, make_request_fn, cache, bio, ctl_vars>>
io_vars == <<io, xfer, disp>>
un_vars == <<un, ls>>
split_vars == <<bc, sub, split>>
vars == <<eio_ttc_list, eio_ttc_lock, make_request_fn, cache, bio,
          io, xfer, disp, bc, sub, split, edit, reboot, un, ls>>

(***************************************************************************)
(* List helpers                                                            *)
(***************************************************************************)
RECURSIVE list_del(_, _)
list_del(lst, c) ==
    IF lst = <<>> THEN <<>>
    ELSE IF Head(lst) = c THEN list_del(Tail(lst), c)
    ELSE <<Head(lst)>> \o list_del(Tail(lst), c)

InList(lst, c) == \E i \in 1 .. Len(lst) : lst[i] = c

Registered(c) == InList(eio_ttc_list[EIO_HASH_BDEV(CacheBdev[c][1])], c)

\* the bindings of one disk that are in its shard list
BindingsOf(disk) == {c \in Dmc : CacheBdev[c][1] = disk /\ Registered(c)}

\* mutant: a writer that does not wait for the readers to leave
lock_free_of_writers(index) == eio_ttc_lock[index].writer = 0

lock_free(index) ==
    eio_ttc_lock[index].writer = 0 /\ eio_ttc_lock[index].readers = {}

(***************************************************************************)
(* eio_ttc_activate, lines 202-218: the scan of the shard list for a       *)
(* conflicting binding.  It stops at the first binding of the same disk.   *)
(***************************************************************************)
\* mutant: only a binding of the very same block device is a conflict
RECURSIVE activate_scan_same_bdev(_, _, _)
activate_scan_same_bdev(lst, bdev, cs) ==
    IF lst = <<>> THEN [error |-> 0, origmfn |-> NULL]
    ELSE LET dmc1 == Head(lst) IN
        IF bd_contains(CacheBdev[dmc1]) # bd_contains(bdev)
        THEN activate_scan_same_bdev(Tail(lst), bdev, cs)
        ELSE IF CacheBdev[dmc1] = bdev
        THEN [error |-> -EINVAL, origmfn |-> NULL]
        ELSE [error |-> 0, origmfn |-> cs[dmc1].origmfn]

RECURSIVE activate_scan(_, _, _)
activate_scan(lst, bdev, cs) ==
    IF lst = <<>> THEN [error |-> 0, origmfn |-> NULL]
    ELSE LET dmc1 == Head(lst) IN
        IF bd_contains(CacheBdev[dmc1]) # bd_contains(bdev)
        THEN activate_scan(Tail(lst), bdev, cs)
        ELSE IF \/ bdev = bd_contains(bdev)
                \/ cs[dmc1].dev_info = EIO_DEV_WHOLE_DISK
                \/ CacheBdev[dmc1] = bdev
        THEN [error |-> -EINVAL, origmfn |-> NULL]
        ELSE [error |-> 0, origmfn |-> cs[dmc1].origmfn]

(***************************************************************************)
(* eio_do_preliminary_checks, lines 602-619: the same test over the whole  *)
(* list, without stopping at the first binding of the disk.                *)
(***************************************************************************)
RECURSIVE eio_do_preliminary_checks(_, _, _)
eio_do_preliminary_checks(lst, bdev, cs) ==
    IF lst = <<>> THEN 0
    ELSE LET dmc1 == Head(lst) IN
        IF bd_contains(CacheBdev[dmc1]) # bd_contains(bdev)
        THEN eio_do_preliminary_checks(Tail(lst), bdev, cs)
        ELSE IF \/ bdev = bd_contains(bdev)
                \/ cs[dmc1].dev_info = EIO_DEV_WHOLE_DISK
                \/ CacheBdev[dmc1] = bdev
        THEN -EINVAL
        ELSE eio_do_preliminary_checks(Tail(lst), bdev, cs)

(***************************************************************************)
(* eio_ttc_deactivate, lines 302-320: is another partition of the disk     *)
(* still in the list?                                                      *)
(***************************************************************************)
\* mutant: the other partitions of the disk are not looked for
found_partitions_none(lst, dmc) == 0

RECURSIVE found_partitions(_, _)
found_partitions(lst, dmc) ==
    IF lst = <<>> THEN 0
    ELSE LET dmc1 == Head(lst) IN
        IF dmc1 = dmc
        THEN found_partitions(Tail(lst), dmc)
        ELSE IF bd_contains(CacheBdev[dmc1]) # bd_contains(CacheBdev[dmc])
        THEN found_partitions(Tail(lst), dmc)
        ELSE 1

\* mutant: the scan passes over a binding of the whole disk
RECURSIVE mfn_scan_partitions_only(_, _, _, _, _, _)
mfn_scan_partitions_only(lst, disk, s, e, origmfn, cs) ==
    IF lst = <<>> THEN [dmc |-> 0, origmfn |-> origmfn, overlap |-> 0]
    ELSE LET dmc1 == Head(lst) IN
        IF CacheBdev[dmc1][1] # disk \/ cs[dmc1].dev_info = EIO_DEV_WHOLE_DISK
        THEN mfn_scan_partitions_only(Tail(lst), disk, s, e, origmfn, cs)
        ELSE LET om == IF origmfn = NULL THEN cs[dmc1].origmfn ELSE origmfn IN
            IF s >= cs[dmc1].dev_start_sect /\ e <= cs[dmc1].dev_end_sect
            THEN [dmc |-> dmc1, origmfn |-> om, overlap |-> 0]
            ELSE IF \/ (s >= cs[dmc1].dev_start_sect /\ s <= cs[dmc1].dev_end_sect)
                    \/ (e >= cs[dmc1].dev_start_sect /\ e <= cs[dmc1].dev_end_sect)
            THEN [dmc |-> 0, origmfn |-> om, overlap |-> 1]
            ELSE mfn_scan_partitions_only(Tail(lst), disk, s, e, om, cs)

\* mutant: the overlap test comes before the containment test
RECURSIVE mfn_scan_overlap_first(_, _, _, _, _, _)
mfn_scan_overlap_first(lst, disk, s, e, origmfn, cs) ==
    IF lst = <<>> THEN [dmc |-> 0, origmfn |-> origmfn, overlap |-> 0]
    ELSE LET dmc1 == Head(lst) IN
        IF CacheBdev[dmc1][1] # disk
        THEN mfn_scan_overlap_first(Tail(lst), disk, s, e, origmfn, cs)
        ELSE IF cs[dmc1].dev_info = EIO_DEV_WHOLE_DISK
        THEN [dmc |-> dmc1, origmfn |-> origmfn, overlap |-> 0]
        ELSE LET om == IF origmfn = NULL THEN cs[dmc1].origmfn ELSE origmfn IN
            IF \/ (s >= cs[dmc1].dev_start_sect /\ s <= cs[dmc1].dev_end_sect)
               \/ (e >= cs[dmc1].dev_start_sect /\ e <= cs[dmc1].dev_end_sect)
            THEN [dmc |-> 0, origmfn |-> om, overlap |-> 1]
            ELSE IF s >= cs[dmc1].dev_start_sect /\ e <= cs[dmc1].dev_end_sect
            THEN [dmc |-> dmc1, origmfn |-> om, overlap |-> 0]
            ELSE mfn_scan_overlap_first(Tail(lst), disk, s, e, om, cs)

(***************************************************************************)
(* eio_make_request_fn, lines 387-424: the classification scan.  s and e   *)
(* are the first and last sector of the bio.                               *)
(***************************************************************************)
RECURSIVE mfn_scan(_, _, _, _, _, _)
mfn_scan(lst, disk, s, e, origmfn, cs) ==
    IF lst = <<>> THEN [dmc |-> 0, origmfn |-> origmfn, overlap |-> 0]
    ELSE LET dmc1 == Head(lst) IN
        IF CacheBdev[dmc1][1] # disk
        THEN mfn_scan(Tail(lst), disk, s, e, origmfn, cs)
        ELSE IF cs[dmc1].dev_info = EIO_DEV_WHOLE_DISK
        THEN [dmc |-> dmc1, origmfn |-> origmfn, overlap |-> 0]
        ELSE LET om == IF origmfn = NULL THEN cs[dmc1].origmfn ELSE origmfn IN
            IF s >= cs[dmc1].dev_start_sect /\ e <= cs[dmc1].dev_end_sect
            THEN [dmc |-> dmc1, origmfn |-> om, overlap |-> 0]
            ELSE IF \/ (s >= cs[dmc1].dev_start_sect /\ s <= cs[dmc1].dev_end_sect)
                    \/ (e >= cs[dmc1].dev_start_sect /\ e <= cs[dmc1].dev_end_sect)
            THEN [dmc |-> 0, origmfn |-> om, overlap |-> 1]
            ELSE mfn_scan(Tail(lst), disk, s, e, om, cs)

(***************************************************************************)
(* Initial state: eio_ttc_init, no cache created, no I/O in flight.        *)
(***************************************************************************)
NewCache ==
    [pc |-> "new", dev_info |-> EIO_DEV_NONE, origmfn |-> NULL,
     dev_start_sect |-> 0, dev_end_sect |-> 0, nr_ios |-> 0, ret |-> 0,
     mode |-> CACHE_MODE_WT, nr_dirty |-> 0, failed |-> FALSE,
     fast_remove |-> FALSE, do_clean |-> {}, cache_flags |-> {},
     via |-> "none", req_policy |-> CACHE_REPL_FIFO, degraded |-> FALSE,
     cache_rdonly |-> FALSE, call_unusable |-> FALSE, turns |-> 0]

\* eio_get_cache_list not called
IdleLs ==
    [pc |-> "idle", lists |-> <<>>, ncaches |-> 0, size |-> 0, j |-> 0,
     i |-> 0, written |-> {}, error |-> 0]

\* no region dispatched, no device attached
IdleUn ==
    [op |-> "none", sector |-> 0, count |-> 0, hddio |-> FALSE,
     dev_start_sect |-> 0, lens |-> <<>>, bvec |-> 0, vec_remain |-> 0,
     remaining |-> 0, remaining_bvecs |-> 0, t |-> <<>>, dev |-> <<>>,
     buf |-> <<>>, dev0 |-> <<>>, wr |-> <<>>, rt |-> FALSE, ops |-> {},
     bug |-> FALSE]

IdleEdit ==
    [pc |-> "idle", dmc |-> 0, mode |-> NoMode, policy |-> NoPolicy,
     error |-> 0, restart_async_task |-> FALSE,
     old_mode |-> NoMode, old_policy |-> NoPolicy]

IdleReboot ==
    [eio_reboot_notified |-> EIO_REBOOT_HANDLING_NONE, bit |-> 0,
     passes |-> 0, seen |-> {}, waited |-> FALSE,
     caller |-> [r \in RebootCallers |-> [pc |-> "idle", i |-> 0, dmc |-> 0]]]

IdleBio ==
    [pc |-> "idle", disk |-> 0, bi_sector |-> 0, nsect |-> 0, dmc |-> 0,
     origmfn |-> NULL, fate |-> "none", error |-> 0, target |-> NULL,
     restarted |-> FALSE, discard |-> FALSE]

(***************************************************************************)
(* No I/O dispatched, no overlapping bio being split.                      *)
(***************************************************************************)
IdleIo ==
    [sync |-> FALSE, count |-> 0, error |-> 0, st |-> "none",
     fired |-> 0, notified |-> FALSE, delivered |-> 0, first_error |-> 0]

IdleDisp == [pc |-> "idle", K |-> 0, i |-> 0, ret |-> 0]

InitIoIdle ==
    /\ io = IdleIo
    /\ xfer = [k \in 1 .. MaxK |-> "none"]
    /\ disp = IdleDisp

IdleBc == [bc_holdcount |-> 0, bc_error |-> 0, st |-> "none"]

IdleSplit ==
    [pc |-> "idle", nbios |-> 0, i |-> 0, oom |-> FALSE,
     endio |-> 0, error |-> 0, first_error |-> 0,
     orig |-> <<>>, bioptr |-> <<>>, snum |-> 0,
     bvec_idx |-> 0, bvec_consumed |-> 0, bug |-> FALSE]

InitSplitIdle ==
    /\ bc = IdleBc
    /\ sub = [j \in 1 .. MaxSplit |-> "none"]
    /\ split = IdleSplit

\* the caches the callers create in a run: the others are never created.
\* Those in wb are write-back caches, each with fast_remove on or off; the
\* others are write-through.
InitWith(created, wb, u) ==
    /\ eio_ttc_list = [i \in Shards |-> <<>>]
    /\ eio_ttc_lock = [i \in Shards |-> [writer |-> 0, readers |-> {}]]
    /\ make_request_fn = [d \in Disks |-> OrigMfn(d)]
    /\ \E fr \in SUBSET wb :
        cache = [c \in Dmc |->
                    IF c \notin created THEN [NewCache EXCEPT !.pc = "absent"]
                    ELSE IF c \in wb
                    THEN [NewCache EXCEPT !.mode = CACHE_MODE_WB,
                                          !.fast_remove = (c \in fr)]
                    ELSE NewCache]
    /\ bio = [t \in IoThreads |-> IdleBio]
    /\ InitIoIdle
    /\ InitSplitIdle
    /\ edit = [e \in EditCallers |-> IdleEdit]
    /\ reboot = IdleReboot
    /\ un = u
    /\ ls = IdleLs

InitModes(created, wb) == InitWith(created, wb, IdleUn)

InitCaches(created) == InitModes(created, {})


(***************************************************************************)
(* eio_ttc_activate, lines 220-235: what the call leaves in the queue's    *)
(* entry point, in the new binding and in the shard list.  r is the result *)
(* of the scan; an error leaves by "goto out" before any of it.            *)
(***************************************************************************)
activate_mfn(r, q, disk) ==
    IF r.error # 0 THEN q
    ELSE IF r.origmfn # NULL THEN q
    ELSE [q EXCEPT ![disk] = eio_make_request_fn]

\* mutant: the binding is linked before the scan's verdict is looked at
activate_list_before_check(r, lst, dmc) == Append(lst, dmc)

activate_list(r, lst, dmc) ==
    IF r.error # 0 THEN lst ELSE Append(lst, dmc)

\* mutant: the entry point of the queue is saved by every activation
activate_origmfn_from_queue(r, q, disk) == q[disk]

activate_origmfn(r, q, disk) ==
    IF r.origmfn # NULL THEN r.origmfn ELSE q[disk]

activate_dev_info(r, bdev) ==
    IF r.origmfn # NULL THEN EIO_DEV_PARTITION
    ELSE IF bdev = bd_contains(bdev) THEN EIO_DEV_WHOLE_DISK
    ELSE EIO_DEV_PARTITION

(***************************************************************************)
(* eio_ttc_activate, lines 179-235 and 247-255: the sector range of the    *)
(* device is stored, the write lock taken, the list scanned.  A conflict   *)
(* releases the lock and returns -EINVAL.  Otherwise the original entry    *)
(* point is saved, the queue switched and the binding linked; the caller   *)
(* still holds the write lock, so no reader sees the list before the       *)
(* caller's next step.                                                     *)
(***************************************************************************)
ActivateBegin(c) ==
    LET bdev == CacheBdev[c]
        index == EIO_HASH_BDEV(bdev[1])
        r == activate_scan(eio_ttc_list[index], bdev, cache)
        ranged == [cache EXCEPT ![c].dev_start_sect = start_sect(bdev),
                                ![c].dev_end_sect = start_sect(bdev) + nr_sects(bdev) - 1]
    IN  /\ cache[c].pc = "new"
        /\ lock_free(index)
        /\ make_request_fn' = activate_mfn(r, make_request_fn, bdev[1])
        /\ eio_ttc_list' = [eio_ttc_list EXCEPT ![index] = activate_list(r, @, c)]
        /\ IF r.error # 0
           THEN /\ cache' = [ranged EXCEPT ![c].pc = "rejected", ![c].ret = r.error]
                /\ UNCHANGED eio_ttc_lock
           ELSE /\ cache' = [ranged EXCEPT
                       ![c].pc = "act_locked",
                       ![c].origmfn = activate_origmfn(r, make_request_fn, bdev[1]),
                       ![c].dev_info = activate_dev_info(r, bdev)]
                /\ eio_ttc_lock' = [eio_ttc_lock EXCEPT ![index].writer = c]
        /\ UNCHANGED <<bio, io_vars, un_vars, split_vars, ctl_vars>>

(***************************************************************************)
(* eio_ttc_activate, lines 237-245: the sleep and the empty barrier flush  *)
(* through the saved entry point (they change no state of the registry),   *)
(* up_write, return 0.                                                     *)
(***************************************************************************)
ActivateEnd(c) ==
    LET index == EIO_HASH_BDEV(CacheBdev[c][1])
    IN  /\ cache[c].pc = "act_locked"
        /\ eio_ttc_lock' = [eio_ttc_lock EXCEPT ![index].writer = 0]
        /\ cache' = [cache EXCEPT ![c].pc = "active", ![c].ret = 0]
        /\ UNCHANGED <<eio_ttc_list, make_request_fn, bio, io_vars, un_vars, split_vars, ctl_vars>>

(***************************************************************************)
(* eio_ttc_deactivate, lines 271-288: the call goes straight to the        *)
(* deactivation when it is forced, when the cache is not write-back, or    *)
(* when the cache is failed; otherwise eio_finish_nrdirty runs first.      *)
(***************************************************************************)
deactivate_drains(force, dmc) ==
    ~force /\ dmc.mode = CACHE_MODE_WB /\ ~dmc.failed

\* the cache is marked failed or degraded; call_unusable remembers whether it
\* was when eio_ttc_deactivate was called
Unusable(dmc) == dmc.failed \/ dmc.degraded

\* why no drain preceded the deactivation of a write-back cache
deactivate_via(force, dmc) ==
    IF dmc.mode # CACHE_MODE_WB THEN "none"
    ELSE IF force THEN "force"
    ELSE "failed"

(***************************************************************************)
(* FINISH_NRDIRTY_RETRY_COUNT: the retries eio_finish_nrdirty is meant to  *)
(* make, the value of retry_count at line 1222.  eio.h sets it; the model  *)
(* takes a small value.  MaxTurns is where the count of the turns of the   *)
(* loop stops counting.                                                    *)
(***************************************************************************)
FINISH_NRDIRTY_RETRY_COUNT == 2
MaxTurns == FINISH_NRDIRTY_RETRY_COUNT + 1

\* mutant: the loop of eio_finish_nrdirty is left after its first turn
finish_again_never(dmc) == FALSE

(***************************************************************************)
(* eio_finish_nrdirty, lines 1252-1254: the condition of the do-while.     *)
(***************************************************************************)
finish_again(dmc) ==
    /\ ~dmc.fast_remove
    /\ dmc.nr_dirty > 0
    /\ CACHE_FLAGS_SHUTDOWN_INPROG \notin dmc.cache_flags

(***************************************************************************)
(* eio_finish_nrdirty, lines 1255-1269: the value returned.  retry_count   *)
(* is set at line 1222 and never changed, so "retry_count == 0" is false.  *)
(***************************************************************************)
finish_ret(dmc, ret) ==
    IF CACHE_FLAGS_SHUTDOWN_INPROG \in dmc.cache_flags /\ dmc.nr_dirty > 0
    THEN -EINVAL ELSE ret

(***************************************************************************)
(* eio_finish_nrdirty, lines 1224-1225: down_write.                        *)
(***************************************************************************)
DrainLock(c) ==
    LET index == EIO_HASH_BDEV(CacheBdev[c][1])
    IN  /\ cache[c].pc = "active"
        /\ deactivate_drains(FALSE, cache[c])
        /\ lock_free(index)
        /\ eio_ttc_lock' = [eio_ttc_lock EXCEPT ![index].writer = c]
        /\ cache' = [cache EXCEPT ![c].pc = "drain_locked", ![c].ret = 0,
                                  ![c].call_unusable = Unusable(cache[c])]
        /\ UNCHANGED <<eio_ttc_list, make_request_fn, bio, io_vars, un_vars, split_vars, ctl_vars>>

(***************************************************************************)
(* eio_finish_nrdirty, lines 1227-1235: with the write lock held, poll     *)
(* until nr_ios is zero, set EIO_CLEAN_KEEP and EIO_CLEAN_START, up_write. *)
(***************************************************************************)
DrainStart(c) ==
    LET index == EIO_HASH_BDEV(CacheBdev[c][1])
    IN  /\ cache[c].pc = "drain_locked"
        /\ cache[c].nr_ios = 0
        /\ eio_ttc_lock' = [eio_ttc_lock EXCEPT ![index].writer = 0]
        /\ cache' = [cache EXCEPT ![c].pc = "drain_loop",
                                  ![c].do_clean = @ \cup {EIO_CLEAN_KEEP, EIO_CLEAN_START}]
        /\ UNCHANGED <<eio_ttc_list, make_request_fn, bio, io_vars, un_vars, split_vars, ctl_vars>>

(***************************************************************************)
(* eio_clean_all (eio_main.c): the cleaner writes back some, all or none   *)
(* of the dirty blocks.                                                    *)
(***************************************************************************)
eio_clean_all(dmc, left) == [dmc EXCEPT !.nr_dirty = left]

(***************************************************************************)
(* eio_finish_nrdirty, lines 1241-1254: one turn of the loop.  A failed    *)
(* cache ends it with -ENODEV; otherwise the cache is cleaned unless       *)
(* fast_remove is set, and the loop goes on while dirty blocks are left.   *)
(* turns counts the turns of the drain in progress, up to MaxTurns.        *)
(***************************************************************************)
finish_turn(dmc, left) ==
    LET n == [dmc EXCEPT !.turns = IF @ < MaxTurns THEN @ + 1 ELSE @] IN
    IF n.failed THEN [dmc |-> n, ret |-> -ENODEV, again |-> FALSE]
    ELSE LET d == IF n.fast_remove THEN n ELSE eio_clean_all(n, left)
         IN  [dmc |-> d, ret |-> 0, again |-> finish_again(d)]

DrainStep(c) ==
    /\ cache[c].pc = "drain_loop"
    /\ \E left \in 0 .. cache[c].nr_dirty :
        LET t == finish_turn(cache[c], left)
        IN  cache' = [cache EXCEPT ![c] =
                [t.dmc EXCEPT !.pc = IF t.again THEN "drain_loop" ELSE "drain_end",
                              !.ret = t.ret]]
    /\ UNCHANGED <<eio_ttc_list, eio_ttc_lock, make_request_fn, bio, io_vars, un_vars, split_vars, ctl_vars>>

(***************************************************************************)
(* eio_finish_nrdirty, lines 1255-1269, and eio_ttc_deactivate, lines      *)
(* 277-283: EIO_CLEAN_START is cleared and the drain returns; an error is  *)
(* returned by eio_ttc_deactivate at once, the binding still registered.   *)
(***************************************************************************)
DrainEnd(c) ==
    LET ret == finish_ret(cache[c], cache[c].ret)
    IN  /\ cache[c].pc = "drain_end"
        /\ cache' = [cache EXCEPT ![c].pc = IF ret # 0 THEN "active" ELSE "drained",
                                  ![c].ret = ret,
                                  ![c].do_clean = @ \ {EIO_CLEAN_START},
                                  ![c].turns = 0]
        /\ UNCHANGED <<eio_ttc_list, eio_ttc_lock, make_request_fn, bio, io_vars, un_vars, split_vars, ctl_vars>>

(***************************************************************************)
(* eio_ttc_deactivate, lines 322-324: the queue's entry point after the    *)
(* call; found is the result of the scan for other partitions.             *)
(***************************************************************************)
deactivate_mfn(q, dmc, found, cs) ==
    IF cs[dmc].dev_info = EIO_DEV_WHOLE_DISK \/ found = 0
    THEN [q EXCEPT ![CacheBdev[dmc][1]] = cs[dmc].origmfn]
    ELSE q

(***************************************************************************)
(* eio_ttc_deactivate, lines 267-272 and 295-327: a call that needs no     *)
(* drain, or whose drain has succeeded, takes the write lock, restores the *)
(* entry point when no other partition of the disk is cached, unlinks the  *)
(* binding and releases the lock.                                          *)
(***************************************************************************)
DeactivateBegin(c) ==
    LET index == EIO_HASH_BDEV(CacheBdev[c][1])
        found == IF cache[c].dev_info # EIO_DEV_WHOLE_DISK
                 THEN found_partitions(eio_ttc_list[index], c) ELSE 0
    IN  /\ lock_free(index)
        /\ \/ /\ cache[c].pc = "active"
              /\ \E force \in BOOLEAN :
                    /\ ~deactivate_drains(force, cache[c])
                    /\ cache' = [cache EXCEPT ![c].pc = "deact_locked",
                                              ![c].via = deactivate_via(force, cache[c]),
                                              ![c].call_unusable = Unusable(cache[c])]
           \/ /\ cache[c].pc = "drained"
              /\ cache' = [cache EXCEPT ![c].pc = "deact_locked", ![c].via = "drained"]
        /\ make_request_fn' = deactivate_mfn(make_request_fn, c, found, cache)
        /\ eio_ttc_lock' = [eio_ttc_lock EXCEPT ![index].writer = c]
        /\ UNCHANGED <<eio_ttc_list, bio, io_vars, un_vars, split_vars, ctl_vars>>

DeactivateUnlink(c) ==
    LET index == EIO_HASH_BDEV(CacheBdev[c][1])
    IN  /\ cache[c].pc = "deact_locked"
        /\ eio_ttc_list' = [eio_ttc_list EXCEPT ![index] = list_del(@, c)]
        /\ eio_ttc_lock' = [eio_ttc_lock EXCEPT ![index].writer = 0]
        /\ cache' = [cache EXCEPT ![c].pc = "deact_wait"]
        /\ UNCHANGED <<make_request_fn, bio, io_vars, un_vars, split_vars, ctl_vars>>

(***************************************************************************)
(* eio_ttc_deactivate, lines 329-333: poll until nr_ios is zero, return.   *)
(***************************************************************************)
DeactivateWait(c) ==
    /\ cache[c].pc = "deact_wait"
    /\ cache[c].nr_ios = 0
    /\ cache' = [cache EXCEPT ![c].pc = "freed", ![c].ret = 0]
    /\ UNCHANGED <<eio_ttc_list, eio_ttc_lock, make_request_fn, bio, io_vars, un_vars, split_vars, ctl_vars>>


(***************************************************************************)
(* The sector ranges a bio may carry: [s, s + n - 1] within the disk.      *)
(***************************************************************************)
BioRanges ==
    {r \in (0 .. DiskSectors - 1) \X (1 .. DiskSectors) : r[1] + r[2] <= DiskSectors}

bio_end(b) == b.bi_sector + b.nsect - 1

(***************************************************************************)
(* generic_make_request: the block layer calls the queue's entry point.    *)
(* A bio enters eio_make_request_fn when that is what the queue holds.     *)
(***************************************************************************)
Submit(t) ==
    /\ bio[t].pc = "idle"
    /\ \E disk \in Disks, r \in BioRanges, discard \in BOOLEAN :
        /\ make_request_fn[disk] = eio_make_request_fn
        /\ bio' = [bio EXCEPT ![t] = [IdleBio EXCEPT
                       !.pc = "re_lookup", !.disk = disk,
                       !.bi_sector = r[1], !.nsect = r[2],
                       !.discard = discard]]
    /\ UNCHANGED <<eio_ttc_list, eio_ttc_lock, make_request_fn, cache, io_vars, un_vars, split_vars, ctl_vars>>

(***************************************************************************)
(* eio_overlap_split_bio as eio_make_request_fn sees it, lines 1872-1914:  *)
(* an allocation failure completes the bio with -ENOMEM, otherwise the bio *)
(* is decomposed into sub-bios.                                            *)
(***************************************************************************)
split_outcome(b, alloc_ok) ==
    IF alloc_ok THEN [b EXCEPT !.fate = "split"]
    ELSE [b EXCEPT !.fate = "error", !.error = -ENOMEM]

\* the function has returned: what is kept of the bio is what became of it
Returned(b) == [b EXCEPT !.pc = "done", !.bi_sector = 0, !.nsect = 0]

(***************************************************************************)
(* eio_make_request_fn, lines 426-435: an overlapping bio, after up_read.  *)
(* discard is bio_op(bio) == REQ_OP_DISCARD.                               *)
(***************************************************************************)
\* mutant: the operation of an overlapping bio is not looked at
mfn_overlap_any_op(b, discard, alloc_ok) == split_outcome(b, alloc_ok)

mfn_overlap(b, discard, alloc_ok) ==
    IF discard THEN [b EXCEPT !.fate = "error", !.error = -EOPNOTSUPP]
    ELSE split_outcome(b, alloc_ok)

(***************************************************************************)
(* eio_make_request_fn, lines 378-435 and 453-457: down_read, the scan,    *)
(* and what follows it at once: an overlapping bio is dealt with after     *)
(* up_read and the function returns; a bio that found its binding keeps    *)
(* the read lock for eio_map; any other bio releases the lock and goes on  *)
(* to resolve the original entry point.                                    *)
(***************************************************************************)
MfnLookup(t) ==
    LET b == bio[t]
        index == EIO_HASH_BDEV(b.disk)
        r == mfn_scan(eio_ttc_list[index], b.disk, b.bi_sector, bio_end(b), NULL, cache)
    IN  /\ b.pc = "re_lookup"
        /\ eio_ttc_lock[index].writer = 0
        /\ IF r.overlap = 1
           THEN /\ \E alloc_ok \in BOOLEAN :
                     bio' = [bio EXCEPT ![t] =
                         Returned(mfn_overlap(b, b.discard, alloc_ok))]
                /\ UNCHANGED eio_ttc_lock
           ELSE IF r.dmc # 0
           THEN /\ bio' = [bio EXCEPT ![t].pc = "map", ![t].dmc = r.dmc,
                                      ![t].origmfn = r.origmfn]
                /\ eio_ttc_lock' = [eio_ttc_lock EXCEPT ![index].readers = @ \cup {t}]
           ELSE /\ bio' = [bio EXCEPT ![t].pc = "resolve", ![t].origmfn = r.origmfn]
                /\ UNCHANGED eio_ttc_lock
        /\ UNCHANGED <<eio_ttc_list, make_request_fn, cache, io_vars, un_vars, split_vars, ctl_vars>>

(***************************************************************************)
(* eio_map (eio_main.c): the cache engine accepts the bio, counting it in  *)
(* the binding's nr_ios until it completes, or returns an error without    *)
(* having taken it.                                                        *)
(***************************************************************************)
eio_map(cs, dmc, ret) ==
    IF ret = 0 THEN [cs EXCEPT ![dmc].nr_ios = @ + 1] ELSE cs

(***************************************************************************)
(* eio_make_request_fn, lines 436-451, after eio_map returned ret: the     *)
(* sector was rebased to the partition for the call and is restored on an  *)
(* error.  Nothing else is done with the bio.                              *)
(***************************************************************************)
mfn_mapped(b, start, ret) ==
    IF ret = 0
    THEN [b EXCEPT !.bi_sector = IF @ # 0 THEN @ - start ELSE @, !.fate = "cache"]
    ELSE [b EXCEPT !.bi_sector = (IF @ # 0 THEN @ - start ELSE @) + start]

MfnMap(t) ==
    LET b == bio[t] IN
    /\ b.pc = "map"
    /\ \E ret \in {0, -EIO} :
        /\ cache' = eio_map(cache, b.dmc, ret)
        /\ bio' = [bio EXCEPT ![t] =
               [mfn_mapped(b, cache[b.dmc].dev_start_sect, ret) EXCEPT !.pc = "mapped"]]
    /\ UNCHANGED <<eio_ttc_list, eio_ttc_lock, make_request_fn, io_vars, un_vars, split_vars, ctl_vars>>

\* mutant: the function returns from the cache path without up_read
MfnReturnLocked(t) ==
    /\ bio[t].pc = "mapped"
    /\ bio' = [bio EXCEPT ![t] = Returned(bio[t])]
    /\ UNCHANGED <<eio_ttc_list, eio_ttc_lock, make_request_fn, cache, io_vars, un_vars, split_vars, ctl_vars>>

(***************************************************************************)
(* eio_make_request_fn, lines 453-457: up_read, return.                    *)
(***************************************************************************)
MfnUnlock(t) ==
    LET index == EIO_HASH_BDEV(bio[t].disk) IN
    /\ bio[t].pc = "mapped"
    /\ eio_ttc_lock' = [eio_ttc_lock EXCEPT ![index].readers = @ \ {t}]
    /\ bio' = [bio EXCEPT ![t] = Returned(bio[t])]
    /\ UNCHANGED <<eio_ttc_list, make_request_fn, cache, io_vars, un_vars, split_vars, ctl_vars>>

(***************************************************************************)
(* eio_make_request_fn, lines 471-474: the entry point to forward to, and  *)
(* whether the lookup must be restarted.  q is the queue's entry point,    *)
(* read without a lock.                                                    *)
(***************************************************************************)
resolve_origmfn(origmfn, q) == IF origmfn = NULL THEN q ELSE origmfn

\* mutant: the resolved entry point is not compared with the interception function
must_re_lookup_never(origmfn) == FALSE

must_re_lookup(origmfn) == origmfn = eio_make_request_fn

(***************************************************************************)
(* hdd_make_request, lines 96-115: no queue completes the bio with -EIO,   *)
(* otherwise the bio is handed to origmfn.                                 *)
(***************************************************************************)
hdd_make_request(b, origmfn, has_queue) ==
    IF has_queue THEN [b EXCEPT !.fate = "forwarded", !.target = origmfn]
    ELSE [b EXCEPT !.fate = "error", !.error = -EIO]

MfnResolve(t) ==
    LET b == bio[t]
        origmfn == resolve_origmfn(b.origmfn, make_request_fn[b.disk])
    IN  /\ b.pc = "resolve"
        /\ IF must_re_lookup(origmfn)
           THEN bio' = [bio EXCEPT ![t].pc = "re_lookup", ![t].origmfn = NULL,
                                   ![t].restarted = TRUE]
           ELSE \E has_queue \in BOOLEAN :
                    bio' = [bio EXCEPT ![t] =
                        Returned([hdd_make_request(b, origmfn, has_queue) EXCEPT
                                      !.origmfn = origmfn])]
        /\ UNCHANGED <<eio_ttc_list, eio_ttc_lock, make_request_fn, cache, io_vars, un_vars, split_vars, ctl_vars>>

(***************************************************************************)
(* The bio is finished with: a bio the cache engine accepted completes and *)
(* leaves nr_ios; the thread is free for its next bio.                     *)
(***************************************************************************)
BioDone(t) ==
    LET b == bio[t] IN
    /\ b.pc = "done"
    /\ cache' = IF b.fate = "cache"
                THEN [cache EXCEPT ![b.dmc].nr_ios = @ - 1] ELSE cache
    /\ bio' = [bio EXCEPT ![t] = IdleBio]
    /\ UNCHANGED <<eio_ttc_list, eio_ttc_lock, make_request_fn, io_vars, un_vars, split_vars, ctl_vars>>

(***************************************************************************)
(* The registry under activation and deactivation alone.                   *)
(***************************************************************************)
InitReg == InitCaches(Dmc)

NextReg ==
    \/ \E c \in Dmc : ActivateBegin(c)
    \/ \E c \in Dmc : ActivateEnd(c)
    \/ \E c \in Dmc : DeactivateBegin(c)
    \/ \E c \in Dmc : DeactivateUnlink(c)
    \/ \E c \in Dmc : DeactivateWait(c)

SpecReg == InitReg /\ [][NextReg]_vars

(***************************************************************************)
(* The registry with I/O arriving while caches are activated and           *)
(* deactivated: two partitions and the whole of disk 1, the whole of       *)
(* disk 2.                                                                 *)
(***************************************************************************)
InitMfn == InitCaches({1, 2, 4, 5})

NextBio ==
    \/ \E t \in IoThreads : Submit(t)
    \/ \E t \in IoThreads : MfnLookup(t)
    \/ \E t \in IoThreads : MfnMap(t)
    \/ \E t \in IoThreads : MfnUnlock(t)
    \/ \E t \in IoThreads : MfnResolve(t)
    \/ \E t \in IoThreads : BioDone(t)

NextMfn == NextReg \/ NextBio

SpecMfn == InitMfn /\ [][NextMfn]_vars

(***************************************************************************)
(* The same on disk 1 alone (its two partitions and the whole disk), with  *)
(* the scheduling the kernel guarantees: a thread that                     *)
(* holds the write lock goes on to release it, and a thread inside         *)
(* eio_make_request_fn goes on running.                                    *)
(***************************************************************************)
InitFair == InitCaches({1, 2, 4})

FairSpecMfn ==
    /\ InitFair
    /\ [][NextMfn]_vars
    /\ WF_vars(\E c \in Dmc : ActivateEnd(c))
    /\ WF_vars(\E c \in Dmc : DeactivateUnlink(c))
    /\ \A t \in IoThreads :
        /\ WF_vars(MfnLookup(t))
        /\ WF_vars(MfnMap(t))
        /\ WF_vars(MfnUnlock(t))
        /\ WF_vars(MfnResolve(t))

(***************************************************************************)
(*                     DRAIN BEFORE DEACTIVATION                           *)
(***************************************************************************)
\* the binding is in use by its cache engine: activated and not yet unlinked
InService(c) ==
    cache[c].pc \in {"active", "drain_locked", "drain_loop", "drain_end", "drained"}

(***************************************************************************)
(* The cache engine (eio_main.c) of a write-back cache makes a block dirty *)
(* when it caches a write, unless it was told to keep the cache clean.     *)
(***************************************************************************)
Dirty(c) ==
    /\ InService(c)
    /\ cache[c].mode = CACHE_MODE_WB
    /\ ~cache[c].failed
    /\ EIO_CLEAN_KEEP \notin cache[c].do_clean
    /\ cache[c].nr_dirty < MaxDirty
    /\ cache' = [cache EXCEPT ![c].nr_dirty = @ + 1]
    /\ UNCHANGED <<eio_ttc_list, eio_ttc_lock, make_request_fn, bio, io_vars, un_vars, split_vars, ctl_vars>>

(***************************************************************************)
(* The cache engine marks the cache failed (CACHE_FAILED_IS_SET) when its  *)
(* SSD is lost.                                                            *)
(***************************************************************************)
Fail(c) ==
    /\ InService(c)
    /\ cache[c].mode = CACHE_MODE_WB
    /\ ~cache[c].failed
    /\ cache' = [cache EXCEPT ![c].failed = TRUE]
    /\ UNCHANGED <<eio_ttc_list, eio_ttc_lock, make_request_fn, bio, io_vars, un_vars, split_vars, ctl_vars>>

\* two write-back caches on the two partitions of disk 1
InitDrain == InitModes({1, 2}, {1, 2})

NextDrain ==
    \/ \E c \in Dmc : ActivateBegin(c)
    \/ \E c \in Dmc : ActivateEnd(c)
    \/ \E c \in Dmc : Dirty(c)
    \/ \E c \in Dmc : Fail(c)
    \/ \E c \in Dmc : DrainLock(c)
    \/ \E c \in Dmc : DrainStart(c)
    \/ \E c \in Dmc : DrainStep(c)
    \/ \E c \in Dmc : DrainEnd(c)
    \/ \E c \in Dmc : DeactivateBegin(c)
    \/ \E c \in Dmc : DeactivateUnlink(c)
    \/ \E c \in Dmc : DeactivateWait(c)

SpecDrain == InitDrain /\ [][NextDrain]_vars

(***************************************************************************)
(* EDITING A CACHE: eio_cache_edit, lines 1272-1439, with the helpers      *)
(* eio_policy_switch and eio_mode_switch.                                  *)
(***************************************************************************)
Modes == {CACHE_MODE_WB, CACHE_MODE_WT, CACHE_MODE_RO}
Policies == {CACHE_REPL_FIFO, CACHE_REPL_LRU}

\* mutant: the flag of a modification in progress is not looked at
edit_busy_never(dmc) == FALSE

(***************************************************************************)
(* eio_cache_edit, line 1308: a modification is already in progress.       *)
(***************************************************************************)
edit_busy(dmc) == CACHE_FLAGS_MOD_INPROG \in dmc.cache_flags

\* mutant: the flag of a shutdown in progress is not looked at
edit_shutdown_never(dmc) == FALSE

(***************************************************************************)
(* eio_cache_edit, line 1301: a shutdown is in progress.                   *)
(***************************************************************************)
edit_shutdown(dmc) == CACHE_FLAGS_SHUTDOWN_INPROG \in dmc.cache_flags

(***************************************************************************)
(* eio_cache_edit, line 1333: the edit drains the dirty blocks first.      *)
(***************************************************************************)
edit_drains(dmc, mode) == dmc.mode = CACHE_MODE_WB /\ mode # CACHE_MODE_WB

(***************************************************************************)
(* eio_cache_edit, lines 1283-1298: where the call returns before it has   *)
(* taken the flag, and what it returns; "flags" when it goes on.           *)
(***************************************************************************)
edit_entry(c, mode, policy) ==
    IF ~Registered(c) THEN [at |-> "lookup", error |-> -EINVAL]
    ELSE IF cache[c].mode = mode /\ cache[c].req_policy = policy
    THEN [at |-> "same", error |-> 0]
    ELSE IF cache[c].failed \/ cache[c].degraded
    THEN [at |-> "unusable", error |-> -EINVAL]
    ELSE [at |-> "flags", error |-> 0]

\* the caller has returned: it keeps the value returned and where from
edit_returned(ed, at, error) ==
    [IdleEdit EXCEPT !.dmc = ed.dmc, !.error = error, !.pc = at]

edit_at_rest(ed) ==
    ed.pc \in {"idle", "lookup", "same", "unusable", "shutdown", "busy", "returned"}

(***************************************************************************)
(* eio_cache_edit, lines 1272-1298: the cache is looked up by name under   *)
(* the read locks of the shards; the call returns if there is none, if     *)
(* nothing is to change, or if the cache is failed or degraded.            *)
(***************************************************************************)
EditCall(e, c, mode, policy) ==
    LET index == EIO_HASH_BDEV(CacheBdev[c][1])
        r == edit_entry(c, mode, policy)
        ed == [IdleEdit EXCEPT !.dmc = c, !.mode = mode, !.policy = policy]
    IN  /\ edit_at_rest(edit[e])
        /\ ~(mode = NoMode /\ policy = NoPolicy)
        /\ eio_ttc_lock[index].writer = 0
        /\ edit' = [edit EXCEPT ![e] =
                IF r.at = "flags" THEN [ed EXCEPT !.pc = "flags"]
                ELSE edit_returned(ed, r.at, r.error)]
        /\ UNCHANGED <<eio_ttc_list, eio_ttc_lock, make_request_fn, cache, bio,
                       io_vars, un_vars, split_vars, reboot>>

(***************************************************************************)
(* eio_cache_edit, lines 1300-1317: under cache_spin_lock, return when a   *)
(* shutdown or another modification is in progress, else set               *)
(* CACHE_FLAGS_MOD_INPROG.  old_mode and old_policy remember the mode and  *)
(* the policy the cache has when the flag is taken.                        *)
(***************************************************************************)
EditFlags(e) ==
    LET c == edit[e].dmc
    IN  /\ edit[e].pc = "flags"
        /\ IF edit_shutdown(cache[c])
           THEN /\ edit' = [edit EXCEPT ![e] = edit_returned(@, "shutdown", -EINVAL)]
                /\ UNCHANGED cache
           ELSE IF edit_busy(cache[c])
           THEN /\ edit' = [edit EXCEPT ![e] = edit_returned(@, "busy", -EINVAL)]
                /\ UNCHANGED cache
           ELSE /\ edit' = [edit EXCEPT ![e].pc = "stop",
                                        ![e].old_mode = cache[c].mode,
                                        ![e].old_policy = cache[c].req_policy]
                /\ cache' = [cache EXCEPT ![c].cache_flags =
                                @ \cup {CACHE_FLAGS_MOD_INPROG}]
        /\ UNCHANGED <<eio_ttc_list, eio_ttc_lock, make_request_fn, bio,
                       io_vars, un_vars, split_vars, reboot>>

(***************************************************************************)
(* eio_cache_edit, lines 1318-1342: a write-back cache that is failed is   *)
(* not edited; otherwise its asynchronous tasks are stopped, to be started *)
(* again at the end, and eio_finish_nrdirty is called when the cache is to *)
(* leave write-back.                                                       *)
(***************************************************************************)
EditStop(e) ==
    LET c == edit[e].dmc
        wb == cache[c].mode = CACHE_MODE_WB
    IN  /\ edit[e].pc = "stop"
        /\ edit' = [edit EXCEPT ![e] =
                IF wb /\ cache[c].failed
                THEN [@ EXCEPT !.pc = "out", !.error = -EINVAL]
                ELSE [@ EXCEPT !.restart_async_task = wb,
                               !.pc = IF edit_drains(cache[c], edit[e].mode)
                                      THEN "finish" ELSE "lock"]]
        /\ UNCHANGED <<eio_ttc_list, eio_ttc_lock, make_request_fn, cache, bio,
                       io_vars, un_vars, split_vars, reboot>>

(***************************************************************************)
(* eio_finish_nrdirty called by eio_cache_edit, lines 1224-1225.           *)
(***************************************************************************)
EditDrainLock(e) ==
    LET c == edit[e].dmc
        index == EIO_HASH_BDEV(CacheBdev[c][1])
    IN  /\ edit[e].pc = "finish"
        /\ lock_free(index)
        /\ eio_ttc_lock' = [eio_ttc_lock EXCEPT ![index].writer = c]
        /\ edit' = [edit EXCEPT ![e].pc = "finish_locked"]
        /\ UNCHANGED <<eio_ttc_list, make_request_fn, cache, bio,
                       io_vars, un_vars, split_vars, reboot>>

(***************************************************************************)
(* eio_finish_nrdirty called by eio_cache_edit, lines 1227-1235.           *)
(***************************************************************************)
EditDrainStart(e) ==
    LET c == edit[e].dmc
        index == EIO_HASH_BDEV(CacheBdev[c][1])
    IN  /\ edit[e].pc = "finish_locked"
        /\ cache[c].nr_ios = 0
        /\ eio_ttc_lock' = [eio_ttc_lock EXCEPT ![index].writer = 0]
        /\ cache' = [cache EXCEPT ![c].do_clean =
                        @ \cup {EIO_CLEAN_KEEP, EIO_CLEAN_START}]
        /\ edit' = [edit EXCEPT ![e].pc = "finish_loop"]
        /\ UNCHANGED <<eio_ttc_list, make_request_fn, bio,
                       io_vars, un_vars, split_vars, reboot>>

(***************************************************************************)
(* eio_finish_nrdirty called by eio_cache_edit, lines 1241-1254.           *)
(***************************************************************************)
EditDrainStep(e) ==
    LET c == edit[e].dmc
    IN  /\ edit[e].pc = "finish_loop"
        /\ \E left \in 0 .. cache[c].nr_dirty :
            LET t == finish_turn(cache[c], left)
            IN  /\ cache' = [cache EXCEPT ![c] = t.dmc]
                /\ edit' = [edit EXCEPT ![e].error = t.ret,
                                        ![e].pc = IF t.again THEN "finish_loop"
                                                  ELSE "finish_end"]
        /\ UNCHANGED <<eio_ttc_list, eio_ttc_lock, make_request_fn, bio,
                       io_vars, un_vars, split_vars, reboot>>

(***************************************************************************)
(* eio_finish_nrdirty, lines 1255-1269, and eio_cache_edit, lines          *)
(* 1343-1354: an error of the drain ends the edit.                         *)
(***************************************************************************)
EditDrainEnd(e) ==
    LET c == edit[e].dmc
        error == finish_ret(cache[c], edit[e].error)
    IN  /\ edit[e].pc = "finish_end"
        /\ cache' = [cache EXCEPT ![c].do_clean = @ \ {EIO_CLEAN_START},
                                  ![c].turns = 0]
        /\ edit' = [edit EXCEPT ![e].error = error,
                                ![e].pc = IF error # 0 THEN "out" ELSE "lock"]
        /\ UNCHANGED <<eio_ttc_list, eio_ttc_lock, make_request_fn, bio,
                       io_vars, un_vars, split_vars, reboot>>

(***************************************************************************)
(* eio_cache_edit, lines 1356-1357: down_write on the cache's shard.       *)
(***************************************************************************)
EditLock(e) ==
    LET c == edit[e].dmc
        index == EIO_HASH_BDEV(CacheBdev[c][1])
    IN  /\ edit[e].pc = "lock"
        /\ lock_free(index)
        /\ eio_ttc_lock' = [eio_ttc_lock EXCEPT ![index].writer = c]
        /\ edit' = [edit EXCEPT ![e].pc = "locked"]
        /\ UNCHANGED <<eio_ttc_list, make_request_fn, cache, bio,
                       io_vars, un_vars, split_vars, reboot>>

(***************************************************************************)
(* eio_policy_switch, lines 1482-1517: eio_policy_init, eio_repl_blk_init  *)
(* and eio_repl_sets_init succeed (ok) or one of them fails; a failure     *)
(* puts the old policy_ops back and leaves req_policy as it was.           *)
(***************************************************************************)
eio_policy_switch(dmc, policy, ok) ==
    IF ok THEN [dmc |-> [dmc EXCEPT !.req_policy = policy], error |-> 0]
    ELSE [dmc |-> dmc, error |-> -ENOMEM]

(***************************************************************************)
(* eio_mode_switch, lines 1441-1476: only the switch to write-back can     *)
(* fail, in eio_allocate_wb_resources, and then the old mode is restored.  *)
(***************************************************************************)
eio_mode_switch(dmc, mode, ok) ==
    IF mode = CACHE_MODE_WB /\ ~ok THEN [dmc |-> dmc, error |-> -ENOMEM]
    ELSE [dmc |-> [dmc EXCEPT !.mode = mode], error |-> 0]

(***************************************************************************)
(* eio_cache_edit, lines 1369-1400, from the policy switch to up_write.    *)
(* ok_policy, ok_mode and ok_sb are the outcomes of eio_policy_switch,     *)
(* eio_mode_switch and eio_sb_store.  locked tells whether the write lock  *)
(* is still held at the label out: the error path of eio_sb_store, line    *)
(* 1394, goes there without up_write.                                      *)
(***************************************************************************)
edit_switch(dmc, mode, policy, ok_policy, ok_mode, ok_sb) ==
    LET p == IF policy # NoPolicy /\ policy # dmc.req_policy
             THEN eio_policy_switch(dmc, policy, ok_policy)
             ELSE [dmc |-> dmc, error |-> 0]
        m == IF mode # NoMode /\ mode # p.dmc.mode
             THEN eio_mode_switch(p.dmc, mode, ok_mode)
             ELSE [dmc |-> p.dmc, error |-> 0]
    IN  IF p.error # 0 THEN [dmc |-> p.dmc, error |-> p.error, locked |-> FALSE]
        ELSE IF m.error # 0 THEN [dmc |-> m.dmc, error |-> m.error, locked |-> FALSE]
        ELSE IF ~ok_sb THEN [dmc |-> m.dmc, error |-> -EIO, locked |-> TRUE]
        ELSE [dmc |-> m.dmc, error |-> 0, locked |-> FALSE]

(***************************************************************************)
(* eio_cache_edit, lines 1359-1400: with the write lock held, poll until   *)
(* nr_ios is zero, switch the policy, switch the mode, store the           *)
(* superblock, up_write.                                                   *)
(***************************************************************************)
EditSwitch(e) ==
    LET c == edit[e].dmc
        index == EIO_HASH_BDEV(CacheBdev[c][1])
    IN  /\ edit[e].pc = "locked"
        /\ cache[c].nr_ios = 0
        /\ \E ok_policy, ok_mode, ok_sb \in BOOLEAN :
            LET r == edit_switch(cache[c], edit[e].mode, edit[e].policy,
                                 ok_policy, ok_mode, ok_sb)
            IN  /\ cache' = [cache EXCEPT ![c] = r.dmc]
                /\ edit' = [edit EXCEPT ![e].error = r.error, ![e].pc = "out"]
                /\ eio_ttc_lock' = [eio_ttc_lock EXCEPT ![index].writer =
                                        IF r.locked THEN @ ELSE 0]
        /\ UNCHANGED <<eio_ttc_list, make_request_fn, bio,
                       io_vars, un_vars, split_vars, reboot>>

(***************************************************************************)
(* eio_cache_edit, lines 1402-1431, the label out: the cleaning flags are  *)
(* cleared and the asynchronous tasks of a write-back cache are started    *)
(* again; when eio_start_clean_thread fails (~ok) its value is returned.   *)
(***************************************************************************)
EditOut(e) ==
    LET c == edit[e].dmc
    IN  /\ edit[e].pc = "out"
        /\ cache' = [cache EXCEPT ![c].do_clean =
                        @ \ {EIO_CLEAN_START, EIO_CLEAN_KEEP}]
        /\ \E ok \in BOOLEAN :
            edit' = [edit EXCEPT ![e].pc = "clear",
                                 ![e].error =
                    IF cache[c].mode = CACHE_MODE_WB /\ edit[e].restart_async_task /\ ~ok
                    THEN -ENOMEM ELSE @]
        /\ UNCHANGED <<eio_ttc_list, eio_ttc_lock, make_request_fn, bio,
                       io_vars, un_vars, split_vars, reboot>>

(***************************************************************************)
(* eio_cache_edit, lines 1432-1438: CACHE_FLAGS_MOD_INPROG is cleared      *)
(* under cache_spin_lock and the error is returned.                        *)
(***************************************************************************)
\* mutant: the call returns and leaves CACHE_FLAGS_MOD_INPROG set
EditReturnKeepsFlag(e) ==
    /\ edit[e].pc = "clear"
    /\ edit' = [edit EXCEPT ![e] = edit_returned(@, "returned", @.error)]
    /\ UNCHANGED <<eio_ttc_list, eio_ttc_lock, make_request_fn, cache, bio,
                   io_vars, un_vars, split_vars, reboot>>

EditReturn(e) ==
    LET c == edit[e].dmc
    IN  /\ edit[e].pc = "clear"
        /\ cache' = [cache EXCEPT ![c].cache_flags = @ \ {CACHE_FLAGS_MOD_INPROG}]
        /\ edit' = [edit EXCEPT ![e] = edit_returned(@, "returned", @.error)]
        /\ UNCHANGED <<eio_ttc_list, eio_ttc_lock, make_request_fn, bio,
                       io_vars, un_vars, split_vars, reboot>>

(***************************************************************************)
(* The cache degrades: its SSD is gone (eio_main.c).                       *)
(***************************************************************************)
Degrade(c) ==
    /\ InService(c)
    /\ ~cache[c].degraded
    /\ cache' = [cache EXCEPT ![c].degraded = TRUE]
    /\ UNCHANGED <<eio_ttc_list, eio_ttc_lock, make_request_fn, bio,
                   io_vars, un_vars, split_vars, ctl_vars>>

EditStep(e) ==
    \/ EditFlags(e) \/ EditStop(e)
    \/ EditDrainLock(e) \/ EditDrainStart(e) \/ EditDrainStep(e) \/ EditDrainEnd(e)
    \/ EditLock(e) \/ EditSwitch(e) \/ EditOut(e) \/ EditReturn(e)

(***************************************************************************)
(* One write-back or write-through cache and two callers of                *)
(* eio_cache_edit on it.                                                   *)
(***************************************************************************)
EditModes == {NoMode, CACHE_MODE_WB, CACHE_MODE_WT}
EditPolicies == {NoPolicy, CACHE_REPL_LRU}

InitEdit == InitModes({1}, {1}) \/ InitModes({1}, {})

NextEdit ==
    \/ \E c \in Dmc : ActivateBegin(c) \/ ActivateEnd(c)
    \/ \E c \in Dmc : Dirty(c) \/ Fail(c) \/ Degrade(c)
    \/ \E e \in EditCallers, mode \in EditModes, policy \in EditPolicies :
          EditCall(e, 1, mode, policy)
    \/ \E e \in EditCallers : EditStep(e)

SpecEdit == InitEdit /\ [][NextEdit]_vars

(***************************************************************************)
(* FAILED AND DEGRADED CACHES: one cache, one caller of eio_cache_edit and *)
(* the caller of eio_ttc_deactivate.  eio_cache_delete (eio_conf.c) does   *)
(* not delete a cache while it is edited, and a cache that is being        *)
(* deleted is not edited: NoEdit and the test of pc state that.            *)
(***************************************************************************)
NoEdit(c) == \A e \in EditCallers : edit[e].dmc = c => edit_at_rest(edit[e])

InitUnusable == InitEdit

NextUnusable ==
    \/ \E c \in Dmc : ActivateBegin(c) \/ ActivateEnd(c)
    \/ \E c \in Dmc : Dirty(c) \/ Fail(c) \/ Degrade(c)
    \/ \E mode \in {CACHE_MODE_WB, CACHE_MODE_WT} :
          cache[1].pc = "active" /\ EditCall(1, 1, mode, NoPolicy)
    \/ EditStep(1)
    \/ \E c \in Dmc : NoEdit(c) /\ (DrainLock(c) \/ DeactivateBegin(c))
    \/ \E c \in Dmc : DrainStart(c) \/ DrainStep(c) \/ DrainEnd(c)
    \/ \E c \in Dmc : DeactivateUnlink(c) \/ DeactivateWait(c)

SpecUnusable == InitUnusable /\ [][NextUnusable]_vars

(***************************************************************************)
(* REBOOT HANDLING: eio_reboot_handling, lines 1741-1861.                  *)
(***************************************************************************)
\* the name under which a caller of eio_reboot_handling owns a write lock
RebootWriter(r) == Len(CacheBdev) + r

\* list_for_each_entry: the first entry of the list, NULL (0) at its end
list_first(lst) == IF lst = <<>> THEN 0 ELSE Head(lst)

\* mutant: the pass leaves a list after its first entry
list_next_none(lst, dmc) == 0

\* list_for_each_entry: the entry after dmc, NULL (0) at the end of the
\* list; dmc is in the list, no binding is unlinked during the pass here
list_next(lst, dmc) ==
    LET k == CHOOSE j \in 1 .. Len(lst) : lst[j] = dmc
    IN  IF k = Len(lst) THEN 0 ELSE lst[k + 1]

\* mutant: the bit EIO_HANDLE_REBOOT is taken whether it is set or not
bit_free_always == TRUE

(***************************************************************************)
(* wait_on_bit_lock_action, lines 1751-1753: EIO_HANDLE_REBOOT is clear.   *)
(***************************************************************************)
bit_free == reboot.bit = 0

(***************************************************************************)
(* eio_reboot_handling, lines 1748-1749: a call made when the handling is  *)
(* done returns 0 at once; any other call goes to wait for the bit.        *)
(***************************************************************************)
RebootCall(r) ==
    /\ reboot.caller[r].pc \in {"idle", "returned"}
    /\ reboot' = [reboot EXCEPT !.caller[r].pc =
            IF reboot.eio_reboot_notified = EIO_REBOOT_HANDLING_DONE
            THEN "returned" ELSE "wait_bit"]
    /\ UNCHANGED <<eio_ttc_list, eio_ttc_lock, make_request_fn, cache, bio,
                   io_vars, un_vars, split_vars, edit>>

(***************************************************************************)
(* eio_reboot_handling, lines 1751-1762: the caller gets the bit; if the   *)
(* handling was done meanwhile it clears the bit and returns 0, else it    *)
(* sets eio_reboot_notified to INPROG and starts the pass at shard 0.      *)
(* passes counts the passes started; seen is the set of the bindings       *)
(* registered at that moment.                                              *)
(***************************************************************************)
RebootBegin(r) ==
    /\ reboot.caller[r].pc = "wait_bit"
    /\ bit_free
    /\ reboot' =
        IF reboot.eio_reboot_notified = EIO_REBOOT_HANDLING_DONE
        THEN [reboot EXCEPT !.bit = 0, !.caller[r].pc = "returned"]
        ELSE [reboot EXCEPT !.bit = r,
                            !.eio_reboot_notified = EIO_REBOOT_HANDLING_INPROG,
                            !.passes = @ + 1,
                            !.seen = {c \in Dmc : Registered(c)},
                            !.caller[r] = [pc |-> "shard", i |-> 0, dmc |-> 0]]
    /\ UNCHANGED <<eio_ttc_list, eio_ttc_lock, make_request_fn, cache, bio,
                   io_vars, un_vars, split_vars, edit>>

(***************************************************************************)
(* eio_reboot_handling, lines 1764-1766: down_write on shard i and the     *)
(* first entry of its list.                                                *)
(***************************************************************************)
RebootShard(r) ==
    LET i == reboot.caller[r].i
    IN  /\ reboot.caller[r].pc = "shard"
        /\ i < HashTblSize
        /\ lock_free(i)
        /\ eio_ttc_lock' = [eio_ttc_lock EXCEPT ![i].writer = RebootWriter(r)]
        /\ reboot' = [reboot EXCEPT !.caller[r].pc = "visit",
                                    !.caller[r].dmc = list_first(eio_ttc_list[i])]
        /\ UNCHANGED <<eio_ttc_list, make_request_fn, cache, bio,
                       io_vars, un_vars, split_vars, edit>>

(***************************************************************************)
(* eio_reboot_handling, lines 1766 and 1851-1853: the list of shard i is   *)
(* at its end: up_write, go to the next shard.                             *)
(***************************************************************************)
RebootShardEnd(r) ==
    LET i == reboot.caller[r].i
    IN  /\ reboot.caller[r].pc = "visit"
        /\ reboot.caller[r].dmc = 0
        /\ eio_ttc_lock' = [eio_ttc_lock EXCEPT ![i].writer = 0]
        /\ reboot' = [reboot EXCEPT !.caller[r].pc = "shard",
                                    !.caller[r].i = i + 1]
        /\ UNCHANGED <<eio_ttc_list, make_request_fn, cache, bio,
                       io_vars, un_vars, split_vars, edit>>

(***************************************************************************)
(* eio_reboot_handling, lines 1768-1796: with the write lock held, a       *)
(* failed or degraded cache is passed over; for any other the caller polls *)
(* until nr_ios is zero and sets CACHE_FLAGS_SHUTDOWN_INPROG.              *)
(***************************************************************************)
RebootVisit(r) ==
    LET i == reboot.caller[r].i
        c == reboot.caller[r].dmc
    IN  /\ reboot.caller[r].pc = "visit"
        /\ c # 0
        /\ IF Unusable(cache[c])
           THEN /\ reboot' = [reboot EXCEPT !.caller[r].dmc =
                                    list_next(eio_ttc_list[i], c)]
                /\ UNCHANGED cache
           ELSE /\ cache[c].nr_ios = 0
                /\ cache' = [cache EXCEPT ![c].cache_flags =
                                @ \cup {CACHE_FLAGS_SHUTDOWN_INPROG}]
                /\ reboot' = [reboot EXCEPT !.caller[r].pc = "mod_wait"]
        /\ UNCHANGED <<eio_ttc_list, eio_ttc_lock, make_request_fn, bio,
                       io_vars, un_vars, split_vars, edit>>

(***************************************************************************)
(* eio_reboot_handling, lines 1802-1804: an edit is in progress: up_write  *)
(* and sleep.  waited remembers that the pass had to wait for an edit.     *)
(***************************************************************************)
RebootModSleep(r) ==
    LET i == reboot.caller[r].i
        c == reboot.caller[r].dmc
    IN  /\ reboot.caller[r].pc = "mod_wait"
        /\ CACHE_FLAGS_MOD_INPROG \in cache[c].cache_flags
        /\ eio_ttc_lock' = [eio_ttc_lock EXCEPT ![i].writer = 0]
        /\ reboot' = [reboot EXCEPT !.caller[r].pc = "mod_sleep",
                                    !.waited = TRUE]
        /\ UNCHANGED <<eio_ttc_list, make_request_fn, cache, bio,
                       io_vars, un_vars, split_vars, edit>>

(***************************************************************************)
(* eio_reboot_handling, lines 1805-1806: down_write, test the flag again.  *)
(***************************************************************************)
RebootModWake(r) ==
    LET i == reboot.caller[r].i
    IN  /\ reboot.caller[r].pc = "mod_sleep"
        /\ lock_free(i)
        /\ eio_ttc_lock' = [eio_ttc_lock EXCEPT ![i].writer = RebootWriter(r)]
        /\ reboot' = [reboot EXCEPT !.caller[r].pc = "mod_wait"]
        /\ UNCHANGED <<eio_ttc_list, make_request_fn, cache, bio,
                       io_vars, un_vars, split_vars, edit>>

(***************************************************************************)
(* eio_reboot_handling, line 1802: no edit is in progress, the loop that  *)
(* waits for it is left.                                                   *)
(***************************************************************************)
RebootModDone(r) ==
    LET c == reboot.caller[r].dmc
    IN  /\ reboot.caller[r].pc = "mod_wait"
        /\ CACHE_FLAGS_MOD_INPROG \notin cache[c].cache_flags
        /\ reboot' = [reboot EXCEPT !.caller[r].pc = "mark"]
        /\ UNCHANGED <<eio_ttc_list, eio_ttc_lock, make_request_fn, cache, bio,
                       io_vars, un_vars, split_vars, edit>>

(***************************************************************************)
(* eio_reboot_handling, lines 1807-1827: a cache with CACHE_FLAGS_DELETED  *)
(* is passed over; any other has its asynchronous tasks stopped and is     *)
(* marked read-only, and the write lock is released.                       *)
(***************************************************************************)
RebootMark(r) ==
    LET i == reboot.caller[r].i
        c == reboot.caller[r].dmc
    IN  /\ reboot.caller[r].pc = "mark"
        /\ IF CACHE_FLAGS_DELETED \in cache[c].cache_flags
           THEN /\ reboot' = [reboot EXCEPT !.caller[r].pc = "visit",
                                !.caller[r].dmc = list_next(eio_ttc_list[i], c)]
                /\ UNCHANGED <<cache, eio_ttc_lock>>
           ELSE /\ cache' = [cache EXCEPT ![c].cache_rdonly = TRUE]
                /\ eio_ttc_lock' = [eio_ttc_lock EXCEPT ![i].writer = 0]
                /\ reboot' = [reboot EXCEPT !.caller[r].pc = "store"]
        /\ UNCHANGED <<eio_ttc_list, make_request_fn, bio,
                       io_vars, un_vars, split_vars, edit>>

(***************************************************************************)
(* eio_reboot_handling, lines 1829-1847: without the lock, the dirty       *)
(* blocks of a cold-boot cache are cleaned (eio_clean_for_reboot leaves    *)
(* left of them), the metadata is stored, an error of eio_md_store being   *)
(* logged only, and CACHE_FLAGS_SHUTDOWN_INPROG is cleared.                *)
(***************************************************************************)
RebootStore(r) ==
    LET c == reboot.caller[r].dmc
    IN  /\ reboot.caller[r].pc = "store"
        /\ \E left \in 0 .. cache[c].nr_dirty :
            cache' = [cache EXCEPT ![c].nr_dirty = left,
                                   ![c].cache_flags =
                                        @ \ {CACHE_FLAGS_SHUTDOWN_INPROG}]
        /\ reboot' = [reboot EXCEPT !.caller[r].pc = "relock"]
        /\ UNCHANGED <<eio_ttc_list, eio_ttc_lock, make_request_fn, bio,
                       io_vars, un_vars, split_vars, edit>>

(***************************************************************************)
(* eio_reboot_handling, lines 1849-1850 and 1766: down_write again and on  *)
(* to the entry that follows in the list as it is now.                     *)
(***************************************************************************)
RebootRelock(r) ==
    LET i == reboot.caller[r].i
        c == reboot.caller[r].dmc
    IN  /\ reboot.caller[r].pc = "relock"
        /\ lock_free(i)
        /\ eio_ttc_lock' = [eio_ttc_lock EXCEPT ![i].writer = RebootWriter(r)]
        /\ reboot' = [reboot EXCEPT !.caller[r].pc = "visit",
                            !.caller[r].dmc = list_next(eio_ttc_list[i], c)]
        /\ UNCHANGED <<eio_ttc_list, make_request_fn, cache, bio,
                       io_vars, un_vars, split_vars, edit>>

(***************************************************************************)
(* eio_reboot_handling, lines 1856-1860: all shards are done:              *)
(* eio_reboot_notified = DONE, the bit is cleared, the waiters are woken,  *)
(* return 0.                                                               *)
(***************************************************************************)
RebootDone(r) ==
    /\ reboot.caller[r].pc = "shard"
    /\ reboot.caller[r].i = HashTblSize
    /\ reboot' = [reboot EXCEPT !.eio_reboot_notified = EIO_REBOOT_HANDLING_DONE,
                                !.bit = 0,
                                !.caller[r] = [pc |-> "returned", i |-> 0, dmc |-> 0]]
    /\ UNCHANGED <<eio_ttc_list, eio_ttc_lock, make_request_fn, cache, bio,
                   io_vars, un_vars, split_vars, edit>>

RebootStep(r) ==
    \/ RebootCall(r) \/ RebootBegin(r)
    \/ RebootShard(r) \/ RebootShardEnd(r) \/ RebootVisit(r)
    \/ RebootModSleep(r) \/ RebootModWake(r)
    \/ RebootModDone(r) \/ RebootMark(r)
    \/ RebootStore(r) \/ RebootRelock(r) \/ RebootDone(r)

(***************************************************************************)
(* A write-back cache and a write-through cache on the two partitions of   *)
(* disk 1, a caller of eio_cache_edit on the first, two callers of         *)
(* eio_reboot_handling.  The first cache may fail, the second may         *)
(* degrade.  No cache is deleted.                                          *)
(***************************************************************************)
InitReboot == InitModes({1, 2}, {1})

NextReboot ==
    \/ \E c \in Dmc : ActivateBegin(c) \/ ActivateEnd(c)
    \/ Dirty(1) \/ Fail(1) \/ Degrade(2)
    \/ EditCall(1, 1, CACHE_MODE_WT, NoPolicy)
    \/ EditStep(1)
    \/ \E r \in RebootCallers : RebootStep(r)

SpecReboot == InitReboot /\ [][NextReboot]_vars

(***************************************************************************)
(*                        THE DISPATCH ENGINE                              *)
(***************************************************************************)
\* the errors a physical transfer completes with
IoErrors == {0, -EIO, -ENOMEM}

(***************************************************************************)
(* eio_dec_count, lines 625-626: the error kept in the context.            *)
(***************************************************************************)
dec_count_error(old, error) == IF error # 0 THEN error ELSE old

(***************************************************************************)
(* eio_dec_count, lines 628-640: atomic_dec_and_test and, at zero, the     *)
(* completion signal: complete(io->event) for a synchronous I/O, else the  *)
(* context is freed and the callback called with io->error.                *)
(***************************************************************************)
dec_and_test(x) ==
    LET n == x.count - 1 IN
    IF n # 0 THEN [x EXCEPT !.count = n]
    ELSE IF x.sync THEN [x EXCEPT !.count = n, !.fired = @ + 1]
    ELSE [x EXCEPT !.count = n, !.fired = @ + 1, !.st = "freed",
                   !.notified = TRUE, !.delivered = x.error]

(***************************************************************************)
(* eio_do_io, lines 1147-1154, into eio_sync_io lines 1098-1108 or         *)
(* eio_async_io lines 1046-1056: the context is set up with one reference  *)
(* of the submitter's own.  An asynchronous I/O whose context cannot be    *)
(* allocated returns -ENOMEM at once.  K is the number of physical         *)
(* transfers the region needs.                                             *)
(***************************************************************************)
eio_do_io ==
    /\ disp.pc = "idle"
    /\ \E sync \in BOOLEAN, K \in 1 .. MaxK, alloc_ok \in BOOLEAN :
        IF ~sync /\ ~alloc_ok
        THEN /\ disp' = [IdleDisp EXCEPT !.pc = "returned", !.K = K, !.ret = -ENOMEM]
             /\ UNCHANGED <<io, xfer>>
        ELSE /\ io' = [IdleIo EXCEPT !.sync = sync, !.count = 1, !.st = "live"]
             /\ xfer' = [k \in 1 .. MaxK |-> IF k <= K THEN "unissued" ELSE "none"]
             /\ disp' = [IdleDisp EXCEPT !.pc = "loop", !.K = K, !.i = 1]
    /\ UNCHANGED <<ttc_vars, un_vars, split_vars>>

\* mutant: the transfer is submitted without taking a reference
count_after_issue_no_inc(count) == count

(***************************************************************************)
(* eio_dispatch_io lines 1027 and 890, eio_dispatch_io_pages line 706:     *)
(* atomic_inc(&io->count) before the transfer is submitted.                *)
(***************************************************************************)
count_after_issue(count) == count + 1

(***************************************************************************)
(* eio_dispatch_io, lines 926-1033 (eio_dispatch_io_pages, lines 673-713): *)
(* one turn of the loop.  The next transfer is issued, or the unaligned    *)
(* path fails to allocate and the loop returns -ENOMEM with the earlier    *)
(* transfers in flight.                                                    *)
(***************************************************************************)
DispatchIssue ==
    /\ disp.pc = "loop"
    /\ \E ok \in BOOLEAN :
        IF ok
        THEN /\ io' = [io EXCEPT !.count = count_after_issue(@)]
             /\ xfer' = [xfer EXCEPT ![disp.i] = "inflight"]
             /\ disp' = [disp EXCEPT !.i = @ + 1,
                                     !.pc = IF disp.i = disp.K THEN "drop_ref" ELSE "loop"]
        ELSE /\ disp' = [disp EXCEPT !.pc = "wait_err", !.ret = -ENOMEM]
             /\ UNCHANGED <<io, xfer>>
    /\ UNCHANGED <<ttc_vars, un_vars, split_vars>>

(***************************************************************************)
(* eio_async_io lines 1089-1091, eio_sync_io lines 1137-1139: the          *)
(* submitter drops its own reference; the asynchronous caller returns, the *)
(* synchronous caller waits for the completion.                            *)
(***************************************************************************)
DropRef ==
    /\ disp.pc = "drop_ref"
    /\ io' = dec_and_test(io)
    /\ disp' = [disp EXCEPT !.pc = IF io.sync THEN "waiting" ELSE "returned"]
    /\ UNCHANGED <<xfer, ttc_vars, un_vars, split_vars>>

\* mutant: after a failed submission the submitter returns without waiting
WaitErrNoWait ==
    /\ disp.pc = "wait_err"
    /\ io' = IF io.sync THEN io ELSE [io EXCEPT !.st = "freed"]
    /\ disp' = [disp EXCEPT !.pc = "returned"]
    /\ UNCHANGED <<xfer, ttc_vars, un_vars, split_vars>>

(***************************************************************************)
(* eio_async_io lines 1075-1087, eio_sync_io lines 1126-1135: after a      *)
(* failed submission, poll until only the submitter's reference is left,   *)
(* free the pooled context, return the error.                              *)
(***************************************************************************)
WaitErr ==
    /\ disp.pc = "wait_err"
    /\ io.count = 1
    /\ io' = IF io.sync THEN io ELSE [io EXCEPT !.st = "freed"]
    /\ disp' = [disp EXCEPT !.pc = "returned"]
    /\ UNCHANGED <<xfer, ttc_vars, un_vars, split_vars>>

(***************************************************************************)
(* eio_sync_io, lines 1139-1144: the waiter wakes and returns io.error.    *)
(***************************************************************************)
SyncWake ==
    /\ disp.pc = "waiting"
    /\ io.fired > 0
    /\ disp' = [disp EXCEPT !.pc = "returned", !.ret = io.error]
    /\ io' = [io EXCEPT !.notified = TRUE, !.delivered = io.error]
    /\ UNCHANGED <<xfer, ttc_vars, un_vars, split_vars>>

(***************************************************************************)
(* eio_endio, lines 643-655, into eio_dec_count: a transfer completes with *)
(* an error or none.  The error is stored first (lines 625-626) ...        *)
(***************************************************************************)
EndioError(k) ==
    /\ xfer[k] = "inflight"
    /\ \E error \in IoErrors :
        io' = [io EXCEPT !.error = dec_count_error(@, error),
                         !.first_error = IF @ = 0 THEN error ELSE @]
    /\ xfer' = [xfer EXCEPT ![k] = "stored"]
    /\ UNCHANGED <<disp, ttc_vars, un_vars, split_vars>>

(***************************************************************************)
(* ... and the reference dropped after it (lines 628-640).                 *)
(***************************************************************************)
EndioDec(k) ==
    /\ xfer[k] = "stored"
    /\ io' = dec_and_test(io)
    /\ xfer' = [xfer EXCEPT ![k] = "done"]
    /\ UNCHANGED <<disp, ttc_vars, un_vars, split_vars>>

InitIo == InitCaches({})

NextIo ==
    \/ eio_do_io
    \/ DispatchIssue
    \/ DropRef
    \/ WaitErr
    \/ SyncWake
    \/ \E k \in 1 .. MaxK : EndioError(k)
    \/ \E k \in 1 .. MaxK : EndioDec(k)

SpecIo == InitIo /\ [][NextIo]_vars

(***************************************************************************)
(*                        THE OVERLAP SPLITTER                             *)
(***************************************************************************)
(***************************************************************************)
(* eio_overlap_split_bio, line 1886: atomic_set(&bc->bc_holdcount, nbios). *)
(***************************************************************************)
split_holdcount(nbios) == nbios

(***************************************************************************)
(* eio_overlap_split_bio, lines 1872-1907: the allocations.  fail is 0     *)
(* when all succeed, j in 1 .. nbios when the j-th sub-bio cannot be       *)
(* allocated, nbios + 1 for the pointer array, nbios + 2 for the           *)
(* container.  A failure completes the original bio with -ENOMEM and       *)
(* releases what was allocated; nothing is submitted.  nbios is at least   *)
(* two: a bio that starts or ends inside a partition without fitting in    *)
(* it (eio_make_request_fn, lines 401-416) covers two sectors or more.     *)
(***************************************************************************)
SplitBegin ==
    /\ split.pc = "idle"
    /\ \E nbios \in 2 .. MaxSplit :
        \E fail \in 0 .. nbios + 2 :
            IF fail # 0
            THEN /\ split' = [IdleSplit EXCEPT !.pc = "returned", !.nbios = nbios,
                                  !.oom = TRUE, !.endio = 1, !.error = -ENOMEM]
                 /\ bc' = IF fail <= nbios THEN [IdleBc EXCEPT !.st = "freed"] ELSE IdleBc
                 /\ UNCHANGED sub
            ELSE /\ split' = [IdleSplit EXCEPT !.pc = "submit", !.nbios = nbios, !.i = 1]
                 /\ bc' = [IdleBc EXCEPT !.bc_holdcount = split_holdcount(nbios),
                                         !.st = "live"]
                 /\ sub' = [j \in 1 .. MaxSplit |-> IF j <= nbios THEN "created" ELSE "none"]
    /\ UNCHANGED <<ttc_vars, io_vars, un_vars>>

(***************************************************************************)
(* eio_make_request_fn, lines 443-454 and 471-478, for a sub-bio: it is    *)
(* forwarded, or accepted by eio_map (ret = 0), and completes later; or    *)
(* eio_map returns an error and the function returns with the sub-bio      *)
(* neither forwarded nor completed.                                        *)
(***************************************************************************)
sub_bio_fate(ret) == IF ret # 0 THEN "dropped" ELSE "submitted"

(***************************************************************************)
(* eio_overlap_split_bio, lines 1909-1914: the next sub-bio is handed to   *)
(* eio_make_request_fn; after the last one the function returns.           *)
(***************************************************************************)
SplitSubmit ==
    /\ split.pc = "submit"
    /\ \E ret \in {0, -EIO} :
        sub' = [sub EXCEPT ![split.i] = sub_bio_fate(ret)]
    /\ split' = [split EXCEPT !.i = @ + 1,
                              !.pc = IF split.i = split.nbios THEN "returned" ELSE "submit"]
    /\ UNCHANGED <<bc, ttc_vars, io_vars, un_vars>>

(***************************************************************************)
(* eio_split_endio, lines 1960-1961: a sub-bio completes; its error is     *)
(* stored ...                                                              *)
(***************************************************************************)
split_error(old, error) == IF error # 0 THEN error ELSE old

SplitEndioError(j) ==
    /\ sub[j] = "submitted"
    /\ \E error \in IoErrors :
        /\ bc' = [bc EXCEPT !.bc_error = split_error(@, error)]
        /\ split' = [split EXCEPT !.first_error = IF @ = 0 THEN error ELSE @]
    /\ sub' = [sub EXCEPT ![j] = "stored"]
    /\ UNCHANGED <<ttc_vars, io_vars, un_vars>>

(***************************************************************************)
(* ... and the holder count dropped (lines 1962-1966): at zero the         *)
(* original bio is completed with bc_error and the container freed.        *)
(***************************************************************************)
SplitEndioDec(j) ==
    /\ sub[j] = "stored"
    /\ sub' = [sub EXCEPT ![j] = "done"]
    /\ IF bc.bc_holdcount - 1 = 0
       THEN /\ bc' = [bc EXCEPT !.bc_holdcount = @ - 1, !.st = "freed"]
            /\ split' = [split EXCEPT !.endio = @ + 1, !.error = bc.bc_error]
       ELSE /\ bc' = [bc EXCEPT !.bc_holdcount = @ - 1]
            /\ UNCHANGED split
    /\ UNCHANGED <<ttc_vars, io_vars, un_vars>>

InitSplit == InitCaches({})

NextSplit ==
    \/ SplitBegin
    \/ SplitSubmit
    \/ \E j \in 1 .. MaxSplit : SplitEndioError(j)
    \/ \E j \in 1 .. MaxSplit : SplitEndioDec(j)

SpecSplit == InitSplit /\ [][NextSplit]_vars

(***************************************************************************)
(*                              PROPERTIES                                 *)
(***************************************************************************)
IsWholeDisk(c) == CacheBdev[c][2] = 0

\* no caller is inside the write-locked section of the disk's shard
NoCallInProgress(disk) == eio_ttc_lock[EIO_HASH_BDEV(disk)].writer = 0

(***************************************************************************)
(* C1.  After each eio_ttc_activate / eio_ttc_deactivate call, the queue's *)
(* entry point of a disk is eio_make_request_fn iff at least one binding   *)
(* of the disk is registered, and is the entry point the queue had before  *)
(* the first activation iff no binding of the disk remains.                *)
(***************************************************************************)
C1_EntryPointFollowsBindings ==
    \A disk \in Disks :
        NoCallInProgress(disk) =>
            /\ make_request_fn[disk] = eio_make_request_fn <=> BindingsOf(disk) # {}
            /\ make_request_fn[disk] = OrigMfn(disk) <=> BindingsOf(disk) = {}

\* partition 1 of disk 1 was deactivated while partition 2 stays bound
C1_Witness ==
    /\ cache[1].pc = "freed"
    /\ Registered(2)
    /\ NoCallInProgress(1)
    /\ make_request_fn[1] = eio_make_request_fn

(***************************************************************************)
(* C2.  The routing decision of eio_make_request_fn for a bio [s, e]:      *)
(* to the cache iff [s, e] lies within exactly one binding's range, split  *)
(* iff it intersects a binding's range without lying within it (starting   *)
(* inside and ending outside, starting outside and ending inside, or       *)
(* starting before and ending after), passthrough otherwise.               *)
(***************************************************************************)
Contains(c, s, e) == cache[c].dev_start_sect <= s /\ e <= cache[c].dev_end_sect
Intersects(c, s, e) == s <= cache[c].dev_end_sect /\ cache[c].dev_start_sect <= e

ClaimedRoute(disk, s, e) ==
    IF Cardinality({c \in BindingsOf(disk) : Contains(c, s, e)}) = 1 THEN "cache"
    ELSE IF \E c \in BindingsOf(disk) : Intersects(c, s, e) /\ ~Contains(c, s, e)
    THEN "split"
    ELSE "passthrough"

\* the decision a lookup step took, read from where it left the bio
DecidedRoute(b) ==
    IF b.pc = "map" THEN "cache"
    ELSE IF b.pc = "resolve" THEN "passthrough"
    ELSE "split"

C2_RoutingDecision ==
    [][\A t \in IoThreads :
        (bio[t].pc = "re_lookup" /\ bio'[t].pc # "re_lookup") =>
            DecidedRoute(bio'[t]) =
                ClaimedRoute(bio[t].disk, bio[t].bi_sector, bio_end(bio[t]))]_vars

(***************************************************************************)
(* C3.  Activating a whole-disk binding while a partition binding of the   *)
(* same disk is registered fails, and activating a partition binding while *)
(* a whole-disk binding of the disk is registered fails: eio_ttc_activate  *)
(* returns -EINVAL ("already cached") and the binding is not inserted;     *)
(* eio_do_preliminary_checks reports the same conflict.                    *)
(***************************************************************************)
WholeVersusPartition(c) ==
    \E c1 \in BindingsOf(CacheBdev[c][1]) : IsWholeDisk(c) # IsWholeDisk(c1)

C3_WholeDiskConflict ==
    /\ [](\A c \in Dmc :
            (cache[c].pc = "new" /\ WholeVersusPartition(c)) =>
                eio_do_preliminary_checks(
                    eio_ttc_list[EIO_HASH_BDEV(CacheBdev[c][1])], CacheBdev[c], cache)
                = -EINVAL)
    /\ [][\A c \in Dmc :
            (cache[c].pc = "new" /\ cache'[c].pc # "new" /\ WholeVersusPartition(c)) =>
                /\ cache'[c].pc = "rejected"
                /\ cache'[c].ret = -EINVAL
                /\ eio_ttc_list' = eio_ttc_list]_vars

\* the whole of disk 1 was refused while a partition of it is bound, and
\* partition 1 of disk 2 was refused while the whole of disk 2 is bound
C3_Witness ==
    /\ cache[4].pc = "rejected" /\ BindingsOf(1) # {}
    /\ cache[6].pc = "rejected" /\ Registered(5)

(***************************************************************************)
(* C4.  No two registered bindings of the same disk claim the same         *)
(* partition or overlapping sector ranges.                                 *)
(***************************************************************************)
C4_NoConflictingBindings ==
    \A a \in Dmc, b \in Dmc :
        (a # b /\ Registered(a) /\ Registered(b) /\ CacheBdev[a][1] = CacheBdev[b][1]) =>
            \/ cache[a].dev_end_sect < cache[b].dev_start_sect
            \/ cache[b].dev_end_sect < cache[a].dev_start_sect

(***************************************************************************)
(* C5.  A failed eio_ttc_activate leaves the registry as it was: every     *)
(* shard list, the queues' entry points and the saved original entry point *)
(* of every registered binding.                                            *)
(***************************************************************************)
C5_FailedActivateChangesNothing ==
    [][\A c \in Dmc :
        (cache[c].pc = "new" /\ cache'[c].pc = "rejected") =>
            /\ cache'[c].ret # 0
            /\ eio_ttc_list' = eio_ttc_list
            /\ make_request_fn' = make_request_fn
            /\ \A c1 \in Dmc : Registered(c1) => cache'[c1].origmfn = cache[c1].origmfn]_vars

\* a second cache on partition 1 of disk 1 was refused; the first is still bound
C5_Witness ==
    /\ cache[3].pc = "rejected"
    /\ cache[3].ret = -EINVAL
    /\ Registered(1)

(***************************************************************************)
(* C6.  A bio that entered eio_make_request_fn has, when the function      *)
(* returns, been accepted by a binding's cache engine, decomposed by the   *)
(* overlap splitter, forwarded to the original entry point or completed    *)
(* with an error.                                                          *)
(***************************************************************************)
C6_NoBioLost ==
    \A t \in IoThreads :
        bio[t].pc = "done" => bio[t].fate \in {"cache", "split", "forwarded", "error"}

(***************************************************************************)
(* C7.  A bio is never forwarded to eio_make_request_fn itself but to the  *)
(* entry point its disk had before interception; when the resolved entry   *)
(* point is eio_make_request_fn the lookup is restarted, and every bio     *)
(* being looked up is eventually handed to a binding or leaves the         *)
(* function.                                                               *)
(***************************************************************************)
C7_NeverForwardedToItself ==
    /\ [](\A t \in IoThreads :
            bio[t].fate = "forwarded" =>
                /\ bio[t].target # eio_make_request_fn
                /\ bio[t].target = OrigMfn(bio[t].disk))
    /\ \A t \in IoThreads :
            (bio[t].pc \in {"re_lookup", "resolve"}) ~> (bio[t].pc \in {"map", "done"})

\* a bio whose lookup was restarted has been forwarded
C7_Witness ==
    \E t \in IoThreads :
        bio[t].pc = "done" /\ bio[t].restarted /\ bio[t].fate = "forwarded"

(***************************************************************************)
(* C8.  For a dispatched I/O split into K physical transfers, the          *)
(* completion signal (the callback, or the wake-up of the synchronous      *)
(* waiter) fires exactly once, and only after all K transfers have been    *)
(* issued and all K have completed.                                        *)
(***************************************************************************)
AllTransfersDone == \A k \in 1 .. disp.K : xfer[k] = "done"

C8_CompletionFiresOnce ==
    /\ io.fired <= 1
    /\ io.fired = 1 => (disp.i > disp.K /\ AllTransfersDone)
    /\ (disp.pc \in {"waiting", "returned"} /\ disp.i > disp.K /\ AllTransfersDone)
            => io.fired = 1

\* three transfers, the callback fired by the last completion after the
\* submitter had returned
C8_Witness ==
    /\ disp.K = MaxK
    /\ ~io.sync
    /\ io.fired = 1
    /\ disp.pc = "returned"

(***************************************************************************)
(* C9.  The error delivered at completion (the callback's argument, the    *)
(* synchronous caller's return value) is the first non-zero error observed *)
(* in completion order, or zero if no transfer failed.                     *)
(***************************************************************************)
C9_FirstErrorDelivered ==
    io.notified => io.delivered = io.first_error

(***************************************************************************)
(* C10.  When an overlapping bio of N sectors is split, the original bio   *)
(* is completed exactly once: after all N sub-bios have completed when     *)
(* they were all created, or at once with -ENOMEM and no sub-bio submitted *)
(* when an allocation fails.  It is never completed twice and never left   *)
(* uncompleted: once the splitter has returned and no sub-bio is in        *)
(* flight any more, the original bio has been completed.                   *)
(***************************************************************************)
AllSubBiosDone == \A j \in 1 .. split.nbios : sub[j] = "done"

SubBioInFlight == \E j \in 1 .. split.nbios : sub[j] \in {"submitted", "stored"}

\* the part of C10 that the holder count alone decides
SplitCompletesAtMostOnce ==
    /\ split.endio <= 1
    /\ (split.endio = 1 /\ ~split.oom) => AllSubBiosDone
    /\ split.oom =>
        /\ split.endio = 1
        /\ split.error = -ENOMEM
        /\ \A j \in 1 .. MaxSplit : sub[j] = "none"
    /\ (split.pc # "idle" /\ ~split.oom /\ AllSubBiosDone) => split.endio = 1

C10_OriginalCompletedOnce ==
    /\ SplitCompletesAtMostOnce
    /\ (split.pc = "returned" /\ ~SubBioInFlight) => split.endio = 1

(***************************************************************************)
(* C11.  The error the original bio of a split is completed with is the    *)
(* first non-zero error observed among the sub-bio completions, in         *)
(* completion order, or zero if none failed: a later failing sub-bio does  *)
(* not replace an error already recorded.                                  *)
(***************************************************************************)
C11_SplitFirstErrorDelivered ==
    (split.endio = 1 /\ ~split.oom) => split.error = split.first_error

(***************************************************************************)
(* C12.  A bio classified as overlap whose operation is a discard is       *)
(* completed at once with -EOPNOTSUPP and is never split: no sub-bio is    *)
(* created and nothing is handed to a cache engine or to the original      *)
(* entry point.                                                            *)
(***************************************************************************)
ClassifiedOverlap(b) ==
    mfn_scan(eio_ttc_list[EIO_HASH_BDEV(b.disk)], b.disk, b.bi_sector, bio_end(b),
             NULL, cache).overlap = 1

C12_OverlapDiscardUnsupported ==
    /\ [](\A t \in IoThreads :
            (bio[t].pc = "done" /\ bio[t].discard) => bio[t].fate # "split")
    /\ [][\A t \in IoThreads :
            (/\ bio[t].pc = "re_lookup"
             /\ bio'[t].pc # "re_lookup"
             /\ bio[t].discard
             /\ ClassifiedOverlap(bio[t])) =>
                /\ bio'[t].pc = "done"
                /\ bio'[t].fate = "error"
                /\ bio'[t].error = -EOPNOTSUPP
                /\ bio'[t].target = NULL
                /\ cache' = cache
                /\ split_vars' = split_vars]_vars

\* a discard that overlaps a bound partition has been refused
C12_Witness ==
    \E t \in IoThreads :
        /\ bio[t].pc = "done"
        /\ bio[t].discard
        /\ bio[t].fate = "error"
        /\ bio[t].error = -EOPNOTSUPP

(***************************************************************************)
(* C13.  eio_ttc_deactivate without force on a write-back binding does not *)
(* restore the entry point or unregister the binding until the drain has   *)
(* brought the dirty-block count to zero, or else it returns the drain's   *)
(* error with the binding registered and the entry point unchanged; with   *)
(* force it unregisters the binding without draining.                      *)
(***************************************************************************)
Deactivating(c) == cache[c].pc \in {"deact_locked", "deact_wait", "freed"}

C14_NoIoAfterDeactivate ==
    /\ [](\A c \in Dmc :
            cache[c].pc = "freed" =>
                /\ \A i \in Shards : ~InList(eio_ttc_list[i], c)
                /\ cache[c].nr_ios = 0
                /\ \A t \in IoThreads : ~(bio[t].pc = "map" /\ bio[t].dmc = c))
    /\ [][\A t \in IoThreads :
            (bio[t].pc = "map" /\ bio'[t].pc # "map") =>
                /\ Registered(bio[t].dmc)
                /\ cache[bio[t].dmc].pc # "freed"]_vars

\* partition 1 of disk 1 has been deactivated while a bio for its sectors is
\* inside eio_make_request_fn, which partition 2 keeps installed
C14_Witness ==
    /\ cache[1].pc = "freed"
    /\ Registered(2)
    /\ \E t \in IoThreads :
        /\ bio[t].pc = "resolve"
        /\ bio[t].disk = 1
        /\ bio[t].bi_sector = 1
        /\ bio[t].nsect = 2


(***************************************************************************)
(* PROPERTIES OF eio_cache_edit                                            *)
(***************************************************************************)
\* the caller has set CACHE_FLAGS_MOD_INPROG and not yet cleared it
Holding(e) ==
    edit[e].pc \in {"stop", "finish", "finish_locked", "finish_loop",
                    "finish_end", "lock", "locked", "out", "clear"}

\* C15. Of the callers of eio_cache_edit on one cache at most one holds
\* CACHE_FLAGS_MOD_INPROG, and the flag is set while it does; a caller that
\* finds the flag set by another returns the error -EINVAL and its step
\* leaves the cache's mode, policy and flags as they are.
C15_OneEditAtATime ==
    /\ [](\A e1, e2 \in EditCallers :
            Holding(e1) /\ Holding(e2) /\ edit[e1].dmc = edit[e2].dmc => e1 = e2)
    /\ [](\A e \in EditCallers :
            Holding(e) => CACHE_FLAGS_MOD_INPROG \in cache[edit[e].dmc].cache_flags)
    /\ [][\A e \in EditCallers :
            (/\ edit[e].pc = "flags"
             /\ edit'[e] # edit[e]
             /\ \E e2 \in EditCallers \ {e} :
                    Holding(e2) /\ edit[e2].dmc = edit[e].dmc)
            => /\ edit'[e].pc = "busy"
               /\ edit'[e].error = -EINVAL
               /\ cache'[edit[e].dmc] = cache[edit[e].dmc]]_vars

C15_Witness ==
    /\ Holding(1)
    /\ edit[1].pc = "locked"
    /\ edit[2].pc = "busy"
    /\ edit[2].dmc = edit[1].dmc
    /\ edit[2].error = -EINVAL

\* C16. A call of eio_cache_edit that returns an error leaves the cache
\* with the mode and the policy it had when the call took
\* CACHE_FLAGS_MOD_INPROG.
C16_FailedEditChangesNothing ==
    [][\A e \in EditCallers :
        (edit[e].pc = "clear" /\ edit'[e].pc = "returned" /\ edit'[e].error # 0)
        => /\ cache'[edit[e].dmc].mode = edit[e].old_mode
           /\ cache'[edit[e].dmc].req_policy = edit[e].old_policy]_vars

\* the part of C16 that holds: an error of the drain leaves the cache in
\* write-back mode with the policy it had
C16_FailedDrainKeepsWriteBack ==
    [][\A e \in EditCallers :
        (edit[e].pc = "finish_end" /\ edit'[e].pc = "out")
        => /\ cache'[edit[e].dmc].mode = CACHE_MODE_WB
           /\ cache'[edit[e].dmc].req_policy = edit[e].old_policy]_vars

\* C17. eio_cache_edit takes a cache out of write-back mode only when its
\* count of dirty blocks is zero at the moment of the switch, and a call
\* that finds a write-back cache failed ends with an error and changes
\* nothing.
C17_ModeSwitchAfterDrain ==
    [][\A e \in EditCallers :
        LET c == edit[e].dmc
        IN  /\ (/\ edit[e].pc = "locked"
                /\ cache[c].mode = CACHE_MODE_WB
                /\ cache'[c].mode # CACHE_MODE_WB)
               => cache[c].nr_dirty = 0
            /\ (/\ edit[e].pc = "stop"
                /\ edit'[e] # edit[e]
                /\ cache[c].mode = CACHE_MODE_WB
                /\ cache[c].failed)
               => /\ edit'[e].pc = "out"
                  /\ edit'[e].error = -EINVAL
                  /\ cache'[c] = cache[c]]_vars

\* what holds of the switch: the drain has returned success, and dirty
\* blocks are left only when fast_remove is set
C17_ModeSwitchDrainedOrFastRemove ==
    [][\A e \in EditCallers :
        LET c == edit[e].dmc
        IN  (/\ edit[e].pc = "locked"
             /\ cache[c].mode = CACHE_MODE_WB
             /\ cache'[c].mode # CACHE_MODE_WB)
            => /\ cache[c].fast_remove \/ cache[c].nr_dirty = 0
               /\ EIO_CLEAN_KEEP \in cache[c].do_clean
               /\ EIO_CLEAN_START \notin cache[c].do_clean]_vars

\* C18. A call of eio_cache_edit that asks for a change of a registered
\* cache that is failed or degraded returns an error and changes nothing of
\* the cache, and no call of eio_ttc_deactivate made on a failed or degraded
\* cache, forced or not, returns an error.
C18_UnusableNoEditButDeactivate ==
    [][/\ \A e \in EditCallers :
            (/\ edit_at_rest(edit[e])
             /\ edit'[e] # edit[e]
             /\ Registered(edit'[e].dmc)
             /\ Unusable(cache[edit'[e].dmc])
             /\ edit'[e].pc # "same")
            => /\ edit_at_rest(edit'[e])
               /\ edit'[e].error # 0
               /\ cache' = cache
       /\ \A c \in Dmc :
            (cache[c].call_unusable /\ cache[c].pc = "drain_end")
            => cache'[c].pc # "active"]_vars

\* the parts of C18 that hold: a failed or degraded cache is not edited,
\* and the deactivation of a failed cache does not wait for dirty blocks
C18_FailedNoEditButDeactivate ==
    [][/\ \A e \in EditCallers :
            (/\ edit_at_rest(edit[e])
             /\ edit'[e] # edit[e]
             /\ Registered(edit'[e].dmc)
             /\ Unusable(cache[edit'[e].dmc])
             /\ edit'[e].pc # "same")
            => /\ edit'[e].pc = "unusable"
               /\ edit'[e].error = -EINVAL
               /\ cache' = cache
       /\ \A c \in Dmc :
            (cache[c].pc = "active" /\ cache'[c].pc # "active" /\ cache[c].failed)
            => cache'[c].pc = "deact_locked"]_vars

(***************************************************************************)
(* PROPERTIES OF eio_reboot_handling                                       *)
(***************************************************************************)
\* the caller is in the pass over the registry
InPass(r) ==
    reboot.caller[r].pc \in {"shard", "visit", "mod_wait", "mod_sleep",
                             "mark", "store", "relock"}

\* C19. The pass of eio_reboot_handling over the registry is started at
\* most once and only its starter, who holds the bit EIO_HANDLE_REBOOT, is
\* in it; no caller returns before the pass is done; a step of a caller
\* made once the pass is done is its return, and it changes no cache and no
\* lock.
C19_RebootSingleFlight ==
    /\ [](reboot.passes <= 1)
    /\ [](\A r \in RebootCallers : InPass(r) => reboot.bit = r)
    /\ [](\A r \in RebootCallers :
            reboot.caller[r].pc = "returned"
            => reboot.eio_reboot_notified = EIO_REBOOT_HANDLING_DONE)
    /\ [][\A r \in RebootCallers :
            (/\ reboot.eio_reboot_notified = EIO_REBOOT_HANDLING_DONE
             /\ reboot'.caller[r] # reboot.caller[r])
            => /\ reboot'.caller[r].pc = "returned"
               /\ cache' = cache
               /\ eio_ttc_lock' = eio_ttc_lock]_vars

\* the second caller waits for the bit while the first is in the pass
C19_Witness ==
    /\ reboot.caller[1].pc = "store"
    /\ reboot.caller[2].pc = "wait_bit"
    /\ \E c \in Dmc : cache[c].cache_rdonly

\* both callers have returned after the one pass
C19_BothReturned ==
    /\ reboot.passes = 1
    /\ \A r \in RebootCallers : reboot.caller[r].pc = "returned"
    /\ \E c \in Dmc : cache[c].cache_rdonly

SectorBytes == 2
MaxVecs == 2

\* sectors in a logical block of the device: LOG_BLK_SSIZE(bdev)
LogBlkSsize == 4

\* segments a bio of the device takes: EIO_BIO_GET_NR_VECS(bdev)
NrVecs == 2

REQ_OP_READ == "REQ_OP_READ"
REQ_OP_WRITE == "REQ_OP_WRITE"

to_bytes(n) == n * SectorBytes
eio_to_sector(b) == b \div SectorBytes
LOG_BLK_SIZE == to_bytes(LogBlkSsize)
EIO_SEC_UNALIGNED(sector) == sector % LogBlkSsize # 0
EIO_ALIGN_SECTOR(sector) == sector - (sector % LogBlkSsize)
min_t(a, b) == IF a < b THEN a ELSE b

\* mutant: the copy always starts at the beginning of the source
memcpy_from_start(dst, doff, src, soff, n) ==
    [i \in 1 .. Len(dst) |->
        IF i > doff /\ i <= doff + n THEN src[i - doff] ELSE dst[i]]

(***************************************************************************)
(* memcpy(dst + doff, src + soff, n): dst after the copy.                  *)
(***************************************************************************)
memcpy(dst, doff, src, soff, n) ==
    [i \in 1 .. Len(dst) |->
        IF i > doff /\ i <= doff + n THEN src[soff + (i - doff)] ELSE dst[i]]

(***************************************************************************)
(* do_unaligned_io, lines 868-876: the walk over the caller's segments     *)
(* until the bytes of this sub-I/O are used up.  lens[b] is bv_len of      *)
(* segment b; a step past the last segment reads beyond the array (oob).   *)
(***************************************************************************)
RECURSIVE un_walk(_, _, _, _)
un_walk(lens, bvec, remain, compl) ==
    IF remain <= 0 THEN [bvec |-> bvec, remain |-> remain, compl |-> compl, oob |-> FALSE]
    ELSE IF bvec + 1 \notin DOMAIN lens
    THEN [bvec |-> bvec + 1, remain |-> 0, compl |-> compl + 1, oob |-> TRUE]
    ELSE un_walk(lens, bvec + 1, remain - lens[bvec + 1], compl + 1)

(***************************************************************************)
(* do_unaligned_io, lines 840-898, past the allocations: the block-aligned *)
(* read bio, the byte window of the sub-I/O in the scratch page and the    *)
(* bookkeeping of the segments it uses.  NULL segment pointers are 0.      *)
(***************************************************************************)
do_unaligned_io(lens, bvec, sector, remaining, vec_remain) ==
    LET bi_sector == EIO_ALIGN_SECTOR(sector)
        offset == to_bytes(sector - bi_sector)
        len == min_t(LOG_BLK_SIZE - offset, to_bytes(remaining))
        first == vec_remain > 0
        remain == IF first THEN len - vec_remain ELSE len - lens[bvec]
        w == un_walk(lens, bvec, remain, 0)
        more == w.remain < 0
        last == w.remain = 0 \/ remaining = eio_to_sector(len)
    IN  [r |-> eio_to_sector(len),
         compl_vecs |-> w.compl + (IF last THEN 1 ELSE 0),
         vec_remain |-> IF more THEN -w.remain ELSE 0,
         oob |-> w.oob,
         un_bio |-> [bi_sector |-> bi_sector, offset |-> offset, len |-> len,
                     bvecs |-> bvec,
                     offset_vec |-> IF first THEN bvec ELSE 0,
                     vec_offset |-> IF first THEN lens[bvec] - vec_remain ELSE 0,
                     remain_vec |-> IF more THEN w.bvec ELSE 0,
                     vec_remain |-> IF more THEN -w.remain ELSE 0]]

(***************************************************************************)
(* end_unaligned_io, lines 749-781: the copy between the caller's segments *)
(* and the scratch page.  m holds the scratch page and the segments'       *)
(* buffers; a segment with nothing left to copy trips EIO_ASSERT (bug).    *)
(***************************************************************************)
RECURSIVE un_copy(_, _, _, _, _, _)
un_copy(u, op, bvecs, remain, offset, m) ==
    IF remain <= 0 THEN m
    ELSE IF bvecs \notin DOMAIN m.buf THEN [m EXCEPT !.bug = TRUE]
    ELSE
    LET len0 == Len(m.buf[bvecs])
        len1 == IF bvecs = u.remain_vec THEN len0 - u.vec_remain ELSE len0
        rem_len == IF bvecs = u.offset_vec THEN len1 - u.vec_offset ELSE len1
        rem_offset == IF bvecs = u.offset_vec THEN u.vec_offset ELSE 0
        bytes == min_t(rem_len, remain)
    IN  IF rem_len <= 0 THEN [m EXCEPT !.bug = TRUE]
        ELSE un_copy(u, op, bvecs + 1, remain - bytes, offset + bytes,
                 IF op = REQ_OP_READ
                 THEN [m EXCEPT !.buf[bvecs] = memcpy(@, rem_offset, m.page, offset, bytes)]
                 ELSE [m EXCEPT !.page = memcpy(@, offset, m.buf[bvecs], rem_offset, bytes)])

(***************************************************************************)
(* eio_dispatch_io, lines 1000-1025: the segments added to one aligned     *)
(* bio.  bio_add_page fails once the bio holds num_bvecs segments.  Each   *)
(* piece is the segment, the offset in it and the length in bytes.         *)
(***************************************************************************)
RECURSIVE add_pages(_, _, _)
add_pages(lens, num_bvecs, s) ==
    IF s.remaining_aligned <= 0 \/ s.oob THEN s
    ELSE IF s.bvec \notin DOMAIN lens THEN [s EXCEPT !.oob = TRUE]
    ELSE
    LET bv_len == lens[s.bvec]
        len == IF s.vec_remain > 0
               THEN min_t(s.vec_remain, to_bytes(s.remaining_aligned))
               ELSE min_t(bv_len, to_bytes(s.remaining_aligned))
        offset == IF s.vec_remain > 0 THEN bv_len - s.vec_remain ELSE 0
        remaining == s.remaining - eio_to_sector(len)
        unfinished == remaining # 0 /\ len < bv_len - s.vec_remain
    IN  IF Len(s.pieces) >= num_bvecs THEN s
        ELSE add_pages(lens, num_bvecs,
                 [s EXCEPT !.remaining_aligned = @ - eio_to_sector(len),
                           !.remaining = remaining,
                           !.pieces = Append(@, [vec |-> s.bvec, offset |-> offset, len |-> len]),
                           !.vec_remain = IF unfinished THEN bv_len - len ELSE 0,
                           !.bvec = IF unfinished THEN @ ELSE @ + 1,
                           !.remaining_bvecs = IF unfinished THEN @ ELSE @ - 1])

(***************************************************************************)
(* eio_dispatch_io lines 993-995, eio_dispatch_io_pages lines 687-688.     *)
(***************************************************************************)
dispatch_sector(u, sector) ==
    IF u.hddio THEN sector + u.dev_start_sect ELSE sector

(***************************************************************************)
(* eio_dispatch_io, lines 965-995: the size of the next aligned bio and    *)
(* its start sector, rebased by the partition's start for an I/O to the    *)
(* source device (hddio).                                                  *)
(***************************************************************************)
aligned_bio(u) ==
    LET many == u.remaining_bvecs > NrVecs
        num_bvecs == IF many THEN NrVecs ELSE u.remaining_bvecs
        remaining_aligned == IF many THEN EIO_ALIGN_SECTOR(to_bytes(num_bvecs))
                             ELSE EIO_ALIGN_SECTOR(u.remaining)
        sector == u.sector + (u.count - u.remaining)
        s == add_pages(u.lens, num_bvecs,
                 [remaining_aligned |-> remaining_aligned, remaining |-> u.remaining,
                  pieces |-> <<>>, vec_remain |-> u.vec_remain, bvec |-> u.bvec,
                  remaining_bvecs |-> u.remaining_bvecs, oob |-> FALSE])
    IN  [bi_sector |-> dispatch_sector(u, sector),
         nsect |-> u.remaining - s.remaining, s |-> s]


(***************************************************************************)
(* The device of the region (where->bdev) as an array of bytes, each byte  *)
(* with a value of its own, and the caller's segments: a write carries     *)
(* bytes of its own, the buffers of a read start zeroed.                   *)
(***************************************************************************)
DevBytes(blocks) == to_bytes(LogBlkSsize * blocks)
FreshDev(blocks) == [i \in 1 .. DevBytes(blocks) |-> i]
UnInit(blocks) == [IdleUn EXCEPT !.dev = FreshDev(blocks)]
DevSectors(u) == eio_to_sector(Len(u.dev))

RECURSIVE SeqSum(_)
SeqSum(s) == IF s = <<>> THEN 0 ELSE Head(s) + SeqSum(Tail(s))

RECURSIVE Flatten(_)
Flatten(b) == IF b = <<>> THEN <<>> ELSE Head(b) \o Flatten(Tail(b))

\* the bytes before segment v in the caller's buffer
Before(lens, v) == SeqSum(SubSeq(lens, 1, v - 1))

CallerBuf(op, lens) ==
    [v \in 1 .. Len(lens) |->
        [j \in 1 .. lens[v] |->
            IF op = REQ_OP_WRITE THEN 100 + Before(lens, v) + j ELSE 0]]

\* the ways to cut n bytes into at most k segments of g bytes or a multiple,
\* none longer than a logical block
RECURSIVE Cuts(_, _, _)
Cuts(n, k, g) ==
    IF n = 0 THEN {<<>>}
    ELSE IF k = 0 THEN {}
    ELSE UNION {{<<l>> \o c : c \in Cuts(n - l, k - 1, g)} :
                l \in {x \in 1 .. min_t(n, LOG_BLK_SIZE) : x % g = 0}}

NoUnBio ==
    [bi_sector |-> 0, offset |-> 0, len |-> 0, bvecs |-> 0, offset_vec |-> 0,
     vec_offset |-> 0, remain_vec |-> 0, vec_remain |-> 0]

\* the sector of the device a transfer lands on: the original entry point
\* takes sectors of the whole disk, submit_bio sectors of where->bdev
DevSector(u, t) ==
    IF t.via = "origmfn" THEN t.bi_sector - u.dev_start_sect ELSE t.bi_sector

(***************************************************************************)
(* eio_dec_count, lines 622-641, in one step.                              *)
(***************************************************************************)
eio_dec_count(x, error) ==
    dec_and_test([x EXCEPT !.error = dec_count_error(@, error),
                           !.first_error = IF @ = 0 THEN error ELSE @])

\* the last call has returned and reported success to its caller
UnSucceeded ==
    /\ disp.pc = "returned" /\ disp.ret = 0
    /\ io.notified /\ io.delivered = 0

UnQuiet == \A k \in DOMAIN un.t : un.t[k].st = "done"

(***************************************************************************)
(* eio_do_io, lines 1147-1154, with a request of type EIO_BVECS, into      *)
(* eio_sync_io lines 1098-1108 or eio_async_io lines 1046-1056, up to the  *)
(* entry of eio_dispatch_io, lines 919-925.  A call is made when the last  *)
(* one has returned and its transfers are over; each operation is called   *)
(* once.  wr and rt remember the bytes of a write that succeeded and that  *)
(* this read is of the same range.                                         *)
(***************************************************************************)
UnCall(op, sector, count, lens, hddio, start, sync) ==
    /\ disp.pc \in {"idle", "returned"}
    /\ UnQuiet
    /\ op \notin un.ops
    /\ sector + count <= DevSectors(un)
    /\ SeqSum(lens) = to_bytes(count)
    /\ \E alloc_ok \in BOOLEAN :
        IF ~sync /\ ~alloc_ok
        THEN /\ disp' = [IdleDisp EXCEPT !.pc = "returned", !.ret = -ENOMEM]
             /\ io' = IdleIo
             /\ un' = [un EXCEPT !.t = <<>>, !.rt = FALSE]
        ELSE /\ io' = [IdleIo EXCEPT !.sync = sync, !.count = 1, !.st = "live"]
             /\ disp' = [IdleDisp EXCEPT !.pc = "loop"]
             /\ un' = [un EXCEPT
                    !.op = op, !.sector = sector, !.count = count,
                    !.hddio = hddio, !.dev_start_sect = start, !.lens = lens,
                    !.bvec = 1, !.vec_remain = 0, !.remaining = count,
                    !.remaining_bvecs = Len(lens), !.t = <<>>,
                    !.buf = CallerBuf(op, lens), !.dev0 = un.dev,
                    !.ops = @ \cup {op},
                    !.rt = /\ op = REQ_OP_READ
                           /\ un.op = REQ_OP_WRITE
                           /\ UnSucceeded
                           /\ un.sector = sector /\ un.count = count,
                    !.wr = IF op = REQ_OP_WRITE
                           THEN CallerBuf(op, lens) ELSE @]
    /\ UNCHANGED <<xfer, ls, ttc_vars, split_vars>>

UnCursor == un.sector + un.count - un.remaining

UnHead ==
    /\ un.remaining > 0
    /\ (EIO_SEC_UNALIGNED(UnCursor) \/ un.remaining < LogBlkSsize)

UnLoopEnd(remaining) == IF remaining = 0 THEN "drop_ref" ELSE "loop"

(***************************************************************************)
(* eio_dispatch_io, lines 928-959: one turn of the align loop.  When       *)
(* un_bio, the bio or the scratch page cannot be allocated the dispatch    *)
(* returns -ENOMEM (lines 936-939, 949-952, do_unaligned_io lines 824-838  *)
(* and 893-899); else do_unaligned_io takes a reference of the context and *)
(* submits the read of the whole logical block with submit_bio (lines      *)
(* 886-891).                                                               *)
(***************************************************************************)
UnAlign ==
    /\ disp.pc = "loop"
    /\ UnHead
    /\ \E ok \in BOOLEAN :
        IF ~ok
        THEN /\ disp' = [disp EXCEPT !.pc = "wait_err", !.ret = -ENOMEM]
             /\ UNCHANGED <<io, un>>
        ELSE LET d == do_unaligned_io(un.lens, un.bvec, UnCursor,
                                      un.remaining, un.vec_remain)
                 remaining == un.remaining - d.r
             IN  /\ io' = [io EXCEPT !.count = count_after_issue(@)]
                 /\ un' = [un EXCEPT
                        !.remaining = remaining,
                        !.remaining_bvecs = @ - d.compl_vecs,
                        !.bvec = @ + d.compl_vecs,
                        !.vec_remain = d.vec_remain,
                        !.bug = @ \/ d.oob,
                        !.t = Append(@,
                            [kind |-> "unaligned", st |-> "read",
                             bi_sector |-> d.un_bio.bi_sector,
                             nsect |-> LogBlkSsize, via |-> "submit_bio",
                             first |-> UnCursor, r |-> d.r,
                             u |-> d.un_bio,
                             page |-> [i \in 1 .. LOG_BLK_SIZE |-> 0],
                             pieces |-> <<>>, rerr |-> 0])]
                 /\ disp' = [disp EXCEPT !.pc = UnLoopEnd(remaining)]
    /\ UNCHANGED <<xfer, ls, ttc_vars, split_vars>>

(***************************************************************************)
(* eio_dispatch_io, lines 960-1033: one aligned bio is built, takes a      *)
(* reference of the context and is sent, through the saved entry point of  *)
(* the source device for hddio, else with submit_bio.                      *)
(***************************************************************************)
UnAligned ==
    /\ disp.pc = "loop"
    /\ un.remaining > 0
    /\ ~UnHead
    /\ LET b == aligned_bio(un) IN
        /\ io' = [io EXCEPT !.count = count_after_issue(@)]
        /\ un' = [un EXCEPT
               !.remaining = b.s.remaining,
               !.remaining_bvecs = b.s.remaining_bvecs,
               !.bvec = b.s.bvec,
               !.vec_remain = b.s.vec_remain,
               !.bug = @ \/ b.s.oob \/ b.nsect = 0,
               !.t = Append(@,
                   [kind |-> "aligned", st |-> "inflight",
                    bi_sector |-> b.bi_sector, nsect |-> b.nsect,
                    via |-> IF un.hddio THEN "origmfn" ELSE "submit_bio",
                    first |-> UnCursor, r |-> b.nsect,
                    u |-> NoUnBio, page |-> <<>>, pieces |-> b.s.pieces])]
        /\ disp' = [disp EXCEPT !.pc = IF b.nsect = 0 THEN "stuck"
                                       ELSE UnLoopEnd(b.s.remaining)]
    /\ UNCHANGED <<xfer, ls, ttc_vars, split_vars>>

\* the logical block of the device that starts at a sector
DevBlock(dev, sector) ==
    SubSeq(dev, to_bytes(sector) + 1, to_bytes(sector) + LOG_BLK_SIZE)

(***************************************************************************)
(* end_unaligned_free, lines 719-730: the scratch page, un_bio and the bio *)
(* are released and the reference of the context dropped with the error.   *)
(* u is the dispatch with what the completed bio has moved.                *)
(***************************************************************************)
\* mutant: the sub-I/O is freed and its reference of the context is kept
end_unaligned_free_keeps_ref(u, k, error) ==
    /\ un' = [u EXCEPT !.t[k].st = "done", !.t[k].page = <<>>]
    /\ io' = io

end_unaligned_free(u, k, error) ==
    /\ un' = [u EXCEPT !.t[k].st = "done", !.t[k].page = <<>>]
    /\ io' = eio_dec_count(io, error)

(***************************************************************************)
(* The read of the logical block completes with an error or none and       *)
(* end_unaligned_io runs, lines 733-811.  On an error nothing is copied    *)
(* (lines 741-744).                                                        *)
(* Else the caller's bytes are copied out of the scratch page (read) or    *)
(* into it (write, lines 749-783); a read is then over, a write builds the *)
(* write-back of the whole block to the sector of the read and submits it  *)
(* with submit_bio (lines 785-806), or fails with -ENOMEM when the bio     *)
(* cannot be built (lines 786-797).  rerr remembers the error the read     *)
(* completed with.                                                         *)
(***************************************************************************)
UnReadDone(k, error, alloc_ok) ==
    /\ k \in DOMAIN un.t
    /\ un.t[k].st = "read"
    /\  LET t == un.t[k]
            m == un_copy(t.u, un.op, t.u.bvecs, t.u.len, t.u.offset,
                         [page |-> DevBlock(un.dev, DevSector(un, t)),
                          buf |-> un.buf, bug |-> FALSE])
            u == [un EXCEPT !.t[k].rerr = error]
        IN  IF error # 0 THEN end_unaligned_free(u, k, error)
            ELSE IF un.op = REQ_OP_READ
            THEN end_unaligned_free([u EXCEPT !.buf = m.buf,
                                              !.bug = @ \/ m.bug], k, 0)
            ELSE IF ~alloc_ok THEN end_unaligned_free(u, k, -ENOMEM)
            ELSE /\ un' = [u EXCEPT !.t[k].st = "write", !.t[k].page = m.page,
                                    !.bug = @ \/ m.bug]
                 /\ io' = io
    /\ UNCHANGED <<xfer, disp, ls, ttc_vars, split_vars>>

(***************************************************************************)
(* The write-back completes with an error or none and end_unaligned_free   *)
(* runs, lines 719-730.                                                    *)
(***************************************************************************)
UnWriteDone(k, error) ==
    /\ k \in DOMAIN un.t
    /\ un.t[k].st = "write"
    /\  LET t == un.t[k]
            dev == IF error # 0 THEN un.dev
                   ELSE memcpy(un.dev, to_bytes(DevSector(un, t)), t.page, 0, LOG_BLK_SIZE)
        IN  end_unaligned_free([un EXCEPT !.dev = dev], k, error)
    /\ UNCHANGED <<xfer, disp, ls, ttc_vars, split_vars>>

\* an aligned bio that completed without error has moved its pieces between
\* the device, from byte at on, and the caller's segments
RECURSIVE transfer(_, _, _, _)
transfer(op, pieces, at, m) ==
    IF pieces = <<>> THEN m
    ELSE LET p == Head(pieces) IN
         transfer(op, Tail(pieces), at + p.len,
             IF op = REQ_OP_READ
             THEN [m EXCEPT !.buf[p.vec] = memcpy(@, p.offset, m.dev, at, p.len)]
             ELSE [m EXCEPT !.dev = memcpy(@, at, m.buf[p.vec], p.offset, p.len)])

(***************************************************************************)
(* An aligned bio completes with an error or none and eio_endio runs,      *)
(* lines 643-655.                                                          *)
(***************************************************************************)
UnEndio(k, error) ==
    /\ k \in DOMAIN un.t
    /\ un.t[k].st = "inflight"
    /\  LET t == un.t[k]
            m == IF error # 0 THEN [dev |-> un.dev, buf |-> un.buf]
                 ELSE transfer(un.op, t.pieces, to_bytes(DevSector(un, t)),
                               [dev |-> un.dev, buf |-> un.buf])
        IN  /\ un' = [un EXCEPT !.t[k].st = "done", !.dev = m.dev, !.buf = m.buf]
            /\ io' = eio_dec_count(io, error)
    /\ UNCHANGED <<xfer, disp, ls, ttc_vars, split_vars>>

(***************************************************************************)
(* A write and a read of byte ranges inside one logical block that is not  *)
(* the whole block, from segments cut at any byte.                         *)
(***************************************************************************)
InitRmw == InitWith({}, {}, UnInit(1))

NextRmw ==
    \/ /\ disp.pc \in {"idle", "returned"}
       /\ \E op \in {REQ_OP_READ, REQ_OP_WRITE} \ un.ops,
             sector \in 0 .. LogBlkSsize - 1, count \in 1 .. LogBlkSsize - 1 :
             \E lens \in Cuts(to_bytes(count), MaxVecs, 1) :
                 UnCall(op, sector, count, lens, FALSE, 0, TRUE)
    \/ UnAlign
    \/ \E k \in 1 .. MaxVecs, error \in IoErrors, alloc_ok \in BOOLEAN :
          UnReadDone(k, error, alloc_ok) \/ UnWriteDone(k, error)
    \/ DropRef
    \/ WaitErr
    \/ SyncWake

SpecRmw == InitRmw /\ [][NextRmw]_vars

\* the bytes of the device outside the region of the last call
Outside(i) ==
    \/ i <= to_bytes(un.sector)
    \/ i > to_bytes(un.sector + un.count)

(***************************************************************************)
(* C21. An unaligned write of a byte range inside one logical block, from  *)
(* any split into caller segments, leaves the bytes of the block outside   *)
(* the range as they were and the bytes of the range as the caller gave    *)
(* them, and a read of the same range that follows returns exactly the     *)
(* bytes written, in any split into segments.                              *)
(***************************************************************************)
C21_UnalignedRoundTrip ==
    /\ (un.op = REQ_OP_WRITE /\ UnSucceeded) =>
          /\ \A i \in DOMAIN un.dev :
                 Outside(i) => un.dev[i] = un.dev0[i]
          /\ SubSeq(un.dev, to_bytes(un.sector) + 1, to_bytes(un.sector + un.count))
                 = Flatten(un.wr)
    /\ (un.op = REQ_OP_READ /\ un.rt /\ UnSucceeded) =>
          Flatten(un.buf) = Flatten(un.wr)

C21_Witness ==
    /\ un.op = REQ_OP_READ /\ un.rt /\ UnSucceeded
    /\ un.sector > 0 /\ un.sector + un.count < LogBlkSsize
    /\ Len(un.wr) = 2 /\ Len(un.buf) = 2
    /\ Len(un.wr[1]) # Len(un.buf[1])
    /\ Flatten(un.buf) = Flatten(un.wr)

(***************************************************************************)
(* One region of a device of DispBlocks blocks dispatched, to the cache     *)
(* device or to the source device (hddio) of a cache on a partition that   *)
(* starts at sector 1, from segments of whole sectors, up to one more than *)
(* a bio takes.  The region starts in the first block and is at most two   *)
(* blocks long.                                                            *)
(***************************************************************************)
DispBlocks == 3

InitDispatch == InitWith({}, {}, UnInit(DispBlocks))

NextDispatch ==
    \/ /\ disp.pc = "idle"
       /\ \E op \in {REQ_OP_READ, REQ_OP_WRITE}, hddio \in BOOLEAN, sync \in BOOLEAN,
             sector \in 0 .. LogBlkSsize - 1,
             count \in 1 .. 2 * LogBlkSsize :
             \E lens \in Cuts(to_bytes(count), NrVecs + 1, SectorBytes) :
                 UnCall(op, sector, count, lens, hddio, IF hddio THEN 1 ELSE 0, sync)
    \/ UnAlign
    \/ UnAligned
    \/ \E k \in 1 .. DispBlocks + 1, error \in {0, -EIO}, alloc_ok \in BOOLEAN :
          UnReadDone(k, error, alloc_ok) \/ UnWriteDone(k, error) \/ UnEndio(k, error)
    \/ DropRef
    \/ WaitErr
    \/ SyncWake

SpecDispatch == InitDispatch /\ [][NextDispatch]_vars

(***************************************************************************)
(* C22. For an I/O addressed to the source device every transfer issued,   *)
(* aligned or unaligned, goes through the saved original entry point with  *)
(* its sector rebased by the start of the partition.                       *)
(***************************************************************************)
C22_HddioThroughOrigMfn ==
    un.hddio =>
        \A k \in DOMAIN un.t :
            /\ un.t[k].via = "origmfn"
            /\ un.t[k].bi_sector =
                   EIO_ALIGN_SECTOR(un.t[k].first) + un.dev_start_sect

\* the aligned transfers of such an I/O do go that way
C22_AlignedThroughOrigMfn ==
    un.hddio =>
        \A k \in DOMAIN un.t :
            un.t[k].kind = "aligned" =>
                /\ un.t[k].via = "origmfn"
                /\ un.t[k].bi_sector = un.t[k].first + un.dev_start_sect

\* the transfers issued cover the sectors dispatched so far once each
C22_CoveredOnce ==
    \A s \in un.sector .. un.sector + un.count - 1 :
        Cardinality({k \in DOMAIN un.t :
                        s \in un.t[k].first .. un.t[k].first + un.t[k].r - 1})
            = IF s < UnCursor THEN 1 ELSE 0

\* no walk leaves the caller's segments and no empty bio is submitted
UnWithinSegments == ~un.bug /\ disp.pc # "stuck"

\* the transfers issued that have not completed: each holds a reference
UnPending == {k \in DOMAIN un.t : un.t[k].st # "done"}

\* the submission loop failed part-way (eio_dispatch_io returned an error)
UnSubmitFailed ==
    \/ disp.pc = "wait_err"
    \/ disp.pc = "returned" /\ disp.ret # 0 /\ io.fired = 0 /\ io.st # "none"

(***************************************************************************)
(* C23. When the submission fails part-way, eio_sync_io and eio_async_io   *)
(* return the error only when every transfer already issued has completed, *)
(* the write-back of an unaligned write included; the context is released  *)
(* only when no transfer holds a reference, it is not touched once         *)
(* released, and the completion is never signalled for such a dispatch.    *)
(***************************************************************************)
C23_ErrorAfterIssuedComplete ==
    /\ [](/\ (disp.pc = "returned" /\ UnSubmitFailed) => UnPending = {}
          /\ io.st = "freed" => UnPending = {}
          /\ UnSubmitFailed => (io.fired = 0 /\ ~io.notified)
          /\ io.fired <= 1)
    /\ [][io.st = "freed" => io' = io]_vars

C23_Witness ==
    /\ disp.pc = "returned" /\ disp.ret = -ENOMEM
    /\ ~io.sync /\ io.st = "freed" /\ ~io.notified
    /\ un.op = REQ_OP_WRITE
    /\ Len(un.t) = 2
    /\ un.t[1].kind = "unaligned" /\ un.t[2].kind = "aligned"
    /\ io.error = -EIO

\* the bindings of the whole of a disk that are registered
WholeDiskBindings(disk) ==
    {c \in Dmc : /\ InList(eio_ttc_list[EIO_HASH_BDEV(disk)], c)
                 /\ CacheBdev[c][1] = disk
                 /\ cache[c].dev_info = EIO_DEV_WHOLE_DISK}

(***************************************************************************)
(* C24. While a binding of the whole disk is registered, the scan of       *)
(* eio_make_request_fn routes every bio of that disk, whatever its sector  *)
(* range, to that binding, and the bio is then handed to its cache engine: *)
(* it is not classified as overlap and not passed through.                 *)
(***************************************************************************)
C24_WholeDiskTakesAll ==
    [][\A t \in IoThreads :
        /\ (bio[t].pc = "re_lookup" /\ bio'[t] # bio[t]) =>
               \A w \in WholeDiskBindings(bio[t].disk) :
                   bio'[t].pc = "map" /\ bio'[t].dmc = w
        /\ (bio[t].pc = "map" /\ bio'[t] # bio[t]) =>
               /\ bio'[t].pc = "mapped" /\ bio'[t].dmc = bio[t].dmc
               /\ bio'[t].fate \in {"cache", "none"}
               /\ bio[t].dmc \in WholeDiskBindings(bio[t].disk)
                  \/ WholeDiskBindings(bio[t].disk) = {}]_vars

C24_Witness ==
    \E t \in IoThreads :
        /\ bio[t].pc = "mapped" /\ bio[t].fate = "cache"
        /\ bio[t].dmc \in WholeDiskBindings(bio[t].disk)
        /\ bio[t].nsect > 1

(***************************************************************************)
(*                        THE LISTING OF THE CACHES                        *)
(***************************************************************************)
EFAULT == 14

\* the most records a caller asks for
MaxRecs == 6

\* sizeof(struct cache_rec_short), and the width of unsigned int as a modulus
RecSize == 3
UIntMod == 16

\* the caches on the lists when eio_get_cache_list is called
ListCaches == {1, 2, 3}

\* the tables of shard lists: any of the caches, each on any shard
ShardTables ==
    UNION {{[j \in 1 .. n |-> SelectSeq(<<1, 2, 3>>, LAMBDA c : c \in S /\ f[c] = j)] :
               f \in [ListCaches -> 1 .. n]} :
           <<n, S>> \in (1 .. HashTblSize + 1) \X SUBSET ListCaches}

\* mutant: the walk over a shard list does not stop at ncaches records
RECURSIVE list_fill_all(_, _, _, _)
list_fill_all(lst, i, ncaches, written) ==
    IF lst = <<>> THEN [i |-> i, written |-> written]
    ELSE list_fill_all(Tail(lst), (i + 1) % UIntMod, ncaches, written \cup {i})

(***************************************************************************)
(* eio_get_cache_list, lines 522-528: the walk over one shard list.        *)
(* cache_recs[i] is filled, i incremented, and the walk stops when i is    *)
(* reclist.ncaches.  written is the set of indexes filled so far.          *)
(***************************************************************************)
RECURSIVE list_fill(_, _, _, _)
list_fill(lst, i, ncaches, written) ==
    IF lst = <<>> THEN [i |-> i, written |-> written]
    ELSE LET i1 == (i + 1) % UIntMod IN
         IF i1 = ncaches THEN [i |-> i1, written |-> written \cup {i}]
         ELSE list_fill(Tail(lst), i1, ncaches, written \cup {i})

(***************************************************************************)
(* vmalloc of the kernel: no memory for a size of zero, else the           *)
(* allocation succeeds or fails.                                           *)
(***************************************************************************)
vmalloc(size, ok) == size # 0 /\ ok

(***************************************************************************)
(* eio_get_cache_list, lines 505-519: the caller's cache_list is copied    *)
(* in, the records allocated and zeroed.  size is an unsigned int.         *)
(***************************************************************************)
LsCall(lists, ncaches, from_ok, alloc_ok) ==
    /\ ls.pc = "idle"
    /\ LET size == (ncaches * RecSize) % UIntMod IN
        ls' = IF ~from_ok
              THEN [ls EXCEPT !.pc = "returned", !.error = -EFAULT]
              ELSE IF ~vmalloc(size, alloc_ok)
              THEN [ls EXCEPT !.pc = "returned", !.ncaches = ncaches,
                              !.size = size, !.lists = lists, !.error = -ENOMEM]
              ELSE [ls EXCEPT !.pc = "shard", !.ncaches = ncaches,
                              !.size = size, !.lists = lists, !.j = 1, !.i = 0]
    /\ UNCHANGED <<un, ttc_vars, io_vars, split_vars>>

(***************************************************************************)
(* eio_get_cache_list, lines 520-533: one turn of the loop over the        *)
(* shards: down_read, the walk, up_read, and the loop ends when i is       *)
(* reclist.ncaches or after the last shard.                                *)
(***************************************************************************)
LsShard ==
    /\ ls.pc = "shard"
    /\ LET r == list_fill(ls.lists[ls.j], ls.i, ls.ncaches, ls.written) IN
        ls' = [ls EXCEPT !.i = r.i, !.written = r.written,
                         !.j = @ + 1,
                         !.pc = IF r.i = ls.ncaches \/ ls.j = Len(ls.lists)
                                THEN "copy" ELSE "shard"]
    /\ UNCHANGED <<un, ttc_vars, io_vars, split_vars>>

(***************************************************************************)
(* eio_get_cache_list, lines 535-549: the records and the cache_list are   *)
(* copied out; a failing copy returns -EFAULT.                             *)
(***************************************************************************)
LsReturn(to_ok) ==
    /\ ls.pc = "copy"
    /\ ls' = [ls EXCEPT !.pc = "returned", !.error = IF to_ok THEN 0 ELSE -EFAULT]
    /\ UNCHANGED <<un, ttc_vars, io_vars, split_vars>>

InitList == InitCaches({})

NextList ==
    \/ /\ ls.pc = "idle"
       /\ \E lists \in ShardTables, ncaches \in 0 .. MaxRecs,
             from_ok \in BOOLEAN, alloc_ok \in BOOLEAN :
             LsCall(lists, ncaches, from_ok, alloc_ok)
    \/ LsShard
    \/ \E to_ok \in BOOLEAN : LsReturn(to_ok)

SpecList == InitList /\ [][NextList]_vars

(***************************************************************************)
(* C25. eio_get_cache_list called for ncaches records fills at most        *)
(* ncaches of them and none at an index of ncaches or more, whatever the   *)
(* number of caches on the shard lists.                                    *)
(***************************************************************************)
C25_ListWithinCapacity ==
    /\ \A k \in ls.written : k < ls.ncaches
    /\ Cardinality(ls.written) <= ls.ncaches

C25_Witness ==
    /\ ls.pc = "returned" /\ ls.error = 0
    /\ ls.ncaches = 2 /\ ls.written = {0, 1}
    /\ Len(ls.lists) = 2
    /\ Len(ls.lists[1]) = 1 /\ Len(ls.lists[2]) = 2

\* the records filled lie in the memory allocated for them
LsWithinAllocation ==
    \A k \in ls.written : (k + 1) * RecSize <= ls.size

\* the shard read lock a bio's thread holds
HoldsReadLock(t) == t \in eio_ttc_lock[EIO_HASH_BDEV(bio[t].disk)].readers

InitQuiesce == InitModes({1}, {1})

NextQuiesce ==
    \/ ActivateBegin(1) \/ ActivateEnd(1)
    \/ NextBio
    \/ DrainLock(1) \/ DrainStart(1) \/ DrainStep(1) \/ DrainEnd(1)
    \/ EditCall(1, 1, CACHE_MODE_WT, NoPolicy)
    \/ EditStep(1)
    \/ RebootStep(1)

SpecQuiesce == InitQuiesce /\ [][NextQuiesce]_vars

(***************************************************************************)
(* A caller sits in a loop "while (atomic64_read(&dmc->nr_ios) != 0)       *)
(* schedule_timeout(...)" on cache c: eio_finish_nrdirty (lines            *)
(* 1228-1231), eio_ttc_deactivate (lines 330-331), eio_cache_edit (lines   *)
(* 1360-1363, and its own call of eio_finish_nrdirty) and                  *)
(* eio_reboot_handling (lines 1779-1782).                                  *)
(***************************************************************************)
PollsNrIos(c) ==
    \/ cache[c].pc \in {"drain_locked", "deact_wait"}
    \/ \E e \in EditCallers :
            edit[e].dmc = c /\ edit[e].pc \in {"locked", "finish_locked"}
    \/ \E r \in RebootCallers :
            /\ reboot.caller[r].pc = "visit"
            /\ reboot.caller[r].dmc = c
            /\ ~Unusable(cache[c])

(***************************************************************************)
(* C27. The write lock of a shard is never held by a caller that waits     *)
(* for nr_ios of a cache to reach zero: whenever activation, deactivation, *)
(* eio_cache_edit, the drain or the reboot handler polls nr_ios with I/O   *)
(* still in flight, the shard's lock has no writer.                        *)
(***************************************************************************)
C27_NoWaitUnderWriteLock ==
    \A c \in Dmc :
        (cache[c].nr_ios > 0 /\ PollsNrIos(c)) =>
            lock_free_of_writers(EIO_HASH_BDEV(CacheBdev[c][1]))

\* eio_ttc_deactivate waits after its up_write (lines 327, 330-331)
DeactivateWaitsUnlocked ==
    \A c \in Dmc :
        cache[c].pc = "deact_wait" =>
            eio_ttc_lock[EIO_HASH_BDEV(CacheBdev[c][1])].writer # c

\* the unaligned sub-I/Os of the dispatch
UnSubIos == {k \in DOMAIN un.t : un.t[k].kind = "unaligned"}

\* a step drops one reference of the context
UnReleased == io.count > 0 /\ io'.count = io.count - 1

(***************************************************************************)
(* C28. Each unaligned sub-I/O takes one reference of the context when it  *)
(* is issued and drops it exactly once, whatever the outcome: when its     *)
(* read fails, when the write-back cannot be allocated, when the read of a *)
(* read request succeeds, when the write-back completes with an error or   *)
(* none.  For a write, the write-back is issued only when the read of the  *)
(* block has completed without error, the reference is kept while the      *)
(* write-back is under way and dropped when it completes; a sub-I/O that   *)
(* is over takes no further step, and the context lives as long as a       *)
(* sub-I/O holds a reference.                                              *)
(***************************************************************************)
C28_OneReferencePerSubIo ==
    /\ [](/\ UnPending # {} =>
                (io.st = "live" /\ io.count >= Cardinality(UnPending))
          /\ \A k \in UnSubIos :
                /\ un.t[k].st \in {"read", "write", "done"}
                /\ un.t[k].st = "write" =>
                        (un.op = REQ_OP_WRITE /\ un.t[k].rerr = 0)
                /\ un.t[k].rerr # 0 => un.t[k].st = "done")
    /\ [][/\ (Len(un'.t) = Len(un.t) + 1 /\ un'.t[Len(un'.t)].kind = "unaligned")
                => (/\ io'.count = io.count + 1
                    /\ un'.t[Len(un'.t)].st = "read")
          /\ \A k \in UnSubIos :
                k \in DOMAIN un'.t =>
                    LET a == un.t[k].st
                        b == un'.t[k].st
                    IN  /\ (a = "read" /\ b = "write") => io' = io
                        /\ (a # "done" /\ b = "done") => UnReleased
                        /\ a = "write" => b \in {"write", "done"}
                        /\ a = "done" => (b = "done" /\ un'.t[k] = un.t[k])
                        /\ (a = "read" /\ b = "done" /\ un.op = REQ_OP_WRITE)
                                => io'.error # 0]_vars

\* a write of two sub-I/Os is over: the read of one failed and no write-back
\* followed, the other was read, written back with an error and released
C28_Witness ==
    /\ un.op = REQ_OP_WRITE
    /\ Cardinality(UnSubIos) = 2
    /\ UnPending = {}
    /\ un.t[1].rerr = -EIO
    /\ un.t[2].rerr = 0
    /\ io.count = 0
    /\ io.st # "live"
    /\ un.dev = un.dev0

\* a drain is at its loop (eio_finish_nrdirty, lines 1241-1254)
InDrainLoop(c) ==
    \/ cache[c].pc \in {"drain_loop", "drain_end"}
    \/ \E e \in EditCallers :
            edit[e].dmc = c /\ edit[e].pc \in {"finish_loop", "finish_end"}

(***************************************************************************)
(* C29. eio_finish_nrdirty makes at most FINISH_NRDIRTY_RETRY_COUNT turns  *)
(* of its cleaning loop: a drain whose dirty blocks never reach zero ends  *)
(* after that many attempts (and returns an error) instead of going on.    *)
(***************************************************************************)
C29_DrainRetriesBounded ==
    \A c \in Dmc : cache[c].turns <= FINISH_NRDIRTY_RETRY_COUNT

\* the loop is left only when a condition other than the count of the
\* retries ends it: no dirty block, fast_remove, a failed cache or a shutdown
DrainLeavesLoopOnlyWhen ==
    \A c \in Dmc :
        cache[c].pc = "drain_end" =>
            \/ cache[c].nr_dirty = 0
            \/ cache[c].fast_remove
            \/ cache[c].failed
            \/ CACHE_FLAGS_SHUTDOWN_INPROG \in cache[c].cache_flags

\* no operation on the registry is under way: every caller has returned
AllReturned ==
    /\ \A c \in Dmc : cache[c].pc \in {"absent", "new", "active", "freed"}
    /\ \A e \in EditCallers : edit_at_rest(edit[e])
    /\ \A r \in RebootCallers : reboot.caller[r].pc \in {"idle", "returned"}
    /\ \A t \in IoThreads : bio[t].pc \in {"idle", "done"}

(***************************************************************************)
(* C30. An operation that took a shard lock has released it when it        *)
(* returns, on every return path, the error paths of eio_cache_edit        *)
(* included: when every caller has returned no shard lock has a writer or  *)
(* a reader, so that the next bio can take the read lock.                  *)
(***************************************************************************)
C30_LocksReleasedOnReturn ==
    AllReturned => \A i \in Shards : lock_free(i)

(***************************************************************************)
(*               THE FLAGS OF A CACHE: EDIT AND REBOOT                     *)
(*                                                                         *)
(* One write-back cache on partition 1, two callers of eio_cache_edit that *)
(* ask for write-through with the policy the cache has, and one reboot     *)
(* pass; the cache may fail.  A call of eio_cache_edit before the          *)
(* activation finds no cache of that name, a call after a switch that      *)
(* succeeded finds nothing to change.                                      *)
(***************************************************************************)
InitFlags == InitModes({1}, {1})

NextFlags ==
    \/ ActivateBegin(1) \/ ActivateEnd(1)
    \/ Fail(1)
    \/ \E e \in EditCallers : EditCall(e, 1, CACHE_MODE_WT, CACHE_REPL_FIFO)
    \/ \E e \in EditCallers : EditStep(e)
    \/ RebootStep(1)

SpecFlags == InitFlags /\ [][NextFlags]_vars

\* the callers of eio_cache_edit that have set the flag of cache c and not
\* yet cleared it
Holders(c) == {e \in EditCallers : Holding(e) /\ edit[e].dmc = c}

(***************************************************************************)
(* C31. CACHE_FLAGS_MOD_INPROG is set on a cache exactly while a call of   *)
(* eio_cache_edit that set it has not returned: the call that set the flag *)
(* leaves only through the step that clears it, with success or with any   *)
(* error, and the flag is clear when it has returned; a call that is       *)
(* rejected (no such cache, nothing to change, failed or degraded cache,   *)
(* shutdown in progress, another modification in progress) leaves the      *)
(* flags of the cache as they are.                                         *)
(***************************************************************************)
C31_EditClearsItsFlag ==
    /\ [](\A c \in Dmc :
            CACHE_FLAGS_MOD_INPROG \in cache[c].cache_flags <=> Holders(c) # {})
    /\ [][\A e \in EditCallers :
            edit'[e] # edit[e] =>
                /\ (Holding(e) /\ edit'[e].pc \notin
                        {"stop", "finish", "finish_locked", "finish_loop",
                         "finish_end", "lock", "locked", "out", "clear"})
                    => /\ edit[e].pc = "clear"
                       /\ edit'[e].pc = "returned"
                       /\ CACHE_FLAGS_MOD_INPROG \notin
                                cache'[edit[e].dmc].cache_flags
                /\ (~Holding(e) /\ edit_at_rest(edit'[e]))
                    => /\ edit'[e].pc \in {"lookup", "same", "unusable",
                                           "shutdown", "busy"}
                       /\ \A c \in Dmc :
                            cache'[c].cache_flags = cache[c].cache_flags]_vars

\* a call has returned the error of the superblock store with the flag
\* cleared, after the other caller was turned away as busy
C31_Witness ==
    /\ edit[1].pc = "returned" /\ edit[1].error = -EIO
    /\ edit[2].pc = "busy" /\ edit[2].dmc = edit[1].dmc
    /\ CACHE_FLAGS_MOD_INPROG \notin cache[1].cache_flags
    /\ cache[1].pc = "active"

\* the reboot pass is at cache c between the end of its wait for
\* CACHE_FLAGS_MOD_INPROG (line 1802) and the marking (line 1824)
AboutToMark(c) ==
    \E r \in RebootCallers :
        reboot.caller[r].pc = "mark" /\ reboot.caller[r].dmc = c

(***************************************************************************)
(* C32. eio_cache_edit and eio_reboot_handling exclude each other on a     *)
(* cache: a call of eio_cache_edit that finds CACHE_FLAGS_SHUTDOWN_INPROG  *)
(* when it looks at the flags returns -EINVAL and changes nothing; no call *)
(* sets CACHE_FLAGS_MOD_INPROG while the shutdown flag is set; and the     *)
(* reboot pass, from the moment it has seen no modification in progress to *)
(* the moment it marks the cache read-only, meets none, whatever the       *)
(* interleaving.                                                           *)
(***************************************************************************)
C32_EditExcludesReboot ==
    /\ [](\A c \in Dmc :
            AboutToMark(c) =>
                /\ CACHE_FLAGS_MOD_INPROG \notin cache[c].cache_flags
                /\ CACHE_FLAGS_SHUTDOWN_INPROG \in cache[c].cache_flags
                /\ Holders(c) = {})
    /\ [][\A e \in EditCallers :
            (/\ edit[e].pc = "flags"
             /\ edit'[e] # edit[e]
             /\ CACHE_FLAGS_SHUTDOWN_INPROG \in cache[edit[e].dmc].cache_flags)
            => /\ edit'[e].pc = "shutdown"
               /\ edit'[e].error = -EINVAL
               /\ cache' = cache]_vars
    /\ [][\A c \in Dmc :
            /\ (/\ CACHE_FLAGS_MOD_INPROG \notin cache[c].cache_flags
                /\ CACHE_FLAGS_MOD_INPROG \in cache'[c].cache_flags)
               => CACHE_FLAGS_SHUTDOWN_INPROG \notin cache[c].cache_flags
            /\ (~cache[c].cache_rdonly /\ cache'[c].cache_rdonly)
               => /\ CACHE_FLAGS_MOD_INPROG \notin cache[c].cache_flags
                  /\ CACHE_FLAGS_MOD_INPROG \notin cache'[c].cache_flags
                  /\ Holders(c) = {}]_vars

\* the pass had to wait for an edit and is now about to mark the cache,
\* a caller of eio_cache_edit having been turned away meanwhile
C32_Witness ==
    /\ AboutToMark(1)
    /\ reboot.waited
    /\ edit[1].pc = "returned"
    /\ edit[2].pc = "shutdown" /\ edit[2].error = -EINVAL

(***************************************************************************)
(* C33. The registered bindings of one disk all hold the same saved entry  *)
(* point in origmfn, and it is never eio_make_request_fn, whatever the     *)
(* sequence and interleaving of eio_ttc_activate and eio_ttc_deactivate.   *)
(***************************************************************************)
C33_OneSavedEntryPoint ==
    \A disk \in Disks :
        \A c1, c2 \in BindingsOf(disk) :
            /\ cache[c1].origmfn = cache[c2].origmfn
            /\ cache[c1].origmfn # eio_make_request_fn
            /\ cache[c1].origmfn # NULL

\* three bindings on disk 1, activated in turn with a deactivation between
C33_Witness ==
    /\ Cardinality(BindingsOf(1)) >= 2
    /\ \E c \in Dmc : CacheBdev[c][1] = 1 /\ cache[c].pc = "freed"
    /\ BindingsOf(2) # {}
    /\ \A c \in BindingsOf(1) : cache[c].origmfn = OrigMfn(1)

(***************************************************************************)
(* THE SUB-BIOS OF A SPLIT, ROUTED AGAIN                                   *)
(*                                                                         *)
(* eio_overlap_split_bio, lines 1909-1910, hands each sub-bio to           *)
(* eio_make_request_fn by a direct call: the queue's entry point is not    *)
(* consulted.  A sub-bio is one sector (eio_split_new_bio, lines 1940 and  *)
(* 1944) and carries the operation of the original (line 1946), which is   *)
(* not a discard (lines 427-430).  The registry may change while the       *)
(* sub-bios are routed.                                                    *)
(***************************************************************************)
SubBioSubmit(t) ==
    /\ bio[t].pc = "idle"
    /\ \E disk \in Disks, snum \in 0 .. DiskSectors - 1 :
        bio' = [bio EXCEPT ![t] = [IdleBio EXCEPT
                    !.pc = "re_lookup", !.disk = disk,
                    !.bi_sector = snum, !.nsect = 1, !.discard = FALSE]]
    /\ UNCHANGED <<eio_ttc_list, eio_ttc_lock, make_request_fn, cache, io_vars, un_vars, split_vars, ctl_vars>>

InitSubBio == InitCaches({1, 2, 4, 5})

NextSubBio ==
    \/ NextReg
    \/ \E t \in IoThreads : SubBioSubmit(t)
    \/ \E t \in IoThreads : MfnLookup(t)
    \/ \E t \in IoThreads : MfnMap(t)
    \/ \E t \in IoThreads : MfnUnlock(t)
    \/ \E t \in IoThreads : MfnResolve(t)
    \/ \E t \in IoThreads : BioDone(t)

SpecSubBio == InitSubBio /\ [][NextSubBio]_vars

\* a bio of one sector awaiting or past its classification
OneSector(b) == b.nsect = 1 /\ b.pc \in {"re_lookup", "map", "unlock", "resolve"}

\* the sector of bio b lies inside the partition bound by c
SectorInside(b, c) ==
    /\ cache[c].dev_info # EIO_DEV_WHOLE_DISK
    /\ b.bi_sector >= cache[c].dev_start_sect
    /\ b.bi_sector <= cache[c].dev_end_sect

(***************************************************************************)
(* C34.  A sub-bio of a split covers one sector, and a bio of one sector   *)
(* is never classified as overlapping, whatever the registry holds when it *)
(* is scanned: the scan either finds the binding that contains the sector  *)
(* or finds none.  Its classification step therefore leads to the cache    *)
(* engine, for one registered binding of its disk that holds the sector,   *)
(* or to the original entry point, and never to a second split, so         *)
(* the splitting is one level deep and the bio is never failed by the      *)
(* splitter (-ENOMEM) or as an overlapping discard (-EOPNOTSUPP).          *)
(***************************************************************************)
C34_SubBioNeverOverlaps ==
    /\ [](\A t \in IoThreads : OneSector(bio[t]) => ~ClassifiedOverlap(bio[t]))
    /\ [](\A t \in IoThreads : bio[t].fate # "split" /\ bio[t].error # -EOPNOTSUPP)
    /\ [][\A t \in IoThreads :
            (bio[t].pc = "re_lookup" /\ bio'[t].pc # "re_lookup")
                => /\ bio'[t].pc \in {"map", "resolve"}
                   /\ bio'[t].pc = "map" =>
                        /\ bio'[t].dmc \in BindingsOf(bio[t].disk)
                        /\ \/ cache[bio'[t].dmc].dev_info = EIO_DEV_WHOLE_DISK
                           \/ SectorInside(bio[t], bio'[t].dmc)]_vars

\* a sub-bio at a partition's last sector went to that partition's cache
\* while the next sector belongs to another binding of the same disk
C34_Witness ==
    \E t \in IoThreads, c, d \in Dmc :
        /\ bio[t].pc = "map" /\ bio[t].nsect = 1 /\ bio[t].dmc = c
        /\ c # d /\ {c, d} \subseteq BindingsOf(bio[t].disk)
        /\ SectorInside(bio[t], c)
        /\ bio[t].bi_sector = cache[c].dev_end_sect
        /\ cache[d].dev_info # EIO_DEV_WHOLE_DISK
        /\ cache[d].dev_start_sect = bio[t].bi_sector + 1

(***************************************************************************)
(*              THE SPLITTER'S WALK OVER THE SEGMENTS                      *)
(*                                                                         *)
(* A bio is [bi_sector, bi_size, bi_idx, bi_io_vec]; bi_io_vec is the      *)
(* sequence of its segments [bv_page, bv_offset, bv_len], the segment of   *)
(* C index k being element k + 1.  Sizes and offsets are in bytes.         *)
(***************************************************************************)
bi_io_vec(b, k) == b.bi_io_vec[k + 1]
bi_vcnt(b) == Len(b.bi_io_vec)

\* mutant: the bytes already taken from the segment are not added
eio_split_new_bio_at_segment_start(b, w, snum) ==
    LET iosize == to_bytes(1)
        next == bi_io_vec(b, w.bvec_idx).bv_len <= w.bvec_consumed
        idx == IF next THEN w.bvec_idx + 1 ELSE w.bvec_idx
        consumed == IF next THEN 0 ELSE w.bvec_consumed
    IN  [bvec_idx |-> idx, bvec_consumed |-> consumed + iosize, bug |-> w.bug,
         cbio |-> [bi_sector |-> snum, bi_size |-> iosize,
                   bv_page |-> bi_io_vec(b, idx).bv_page,
                   bv_offset |-> bi_io_vec(b, idx).bv_offset,
                   bv_len |-> iosize]]

(***************************************************************************)
(* eio_split_new_bio, lines 1921-1951, once bio_alloc has succeeded.  w is *)
(* [bvec_idx, bvec_consumed, bug]: the walk's position in the original bio *)
(* b and whether an EIO_ASSERT has tripped (lines 1928, 1931, 1933).  The  *)
(* result is the walk's new position and the sub-bio cbio, of one segment  *)
(* of iosize = 1 << SECTOR_SHIFT bytes.  Past the last segment (line 1933  *)
(* tripped) there is no segment to take a page from.                       *)
(***************************************************************************)
eio_split_new_bio(b, w, snum) ==
    LET iosize == to_bytes(1)
        len == bi_io_vec(b, w.bvec_idx).bv_len
        next == len <= w.bvec_consumed
        idx == IF next THEN w.bvec_idx + 1 ELSE w.bvec_idx
        consumed == IF next THEN 0 ELSE w.bvec_consumed
        bug == \/ w.bug
               \/ ~(len >= iosize)
               \/ next /\ ~(len = w.bvec_consumed)
               \/ next /\ ~(bi_vcnt(b) > idx)
    IN  IF ~(bi_vcnt(b) > idx)
        THEN [bvec_idx |-> idx, bvec_consumed |-> consumed + iosize, bug |-> TRUE,
              cbio |-> [bi_sector |-> snum, bi_size |-> iosize,
                        bv_page |-> NULL, bv_offset |-> 0, bv_len |-> iosize]]
        ELSE [bvec_idx |-> idx, bvec_consumed |-> consumed + iosize, bug |-> bug,
              cbio |-> [bi_sector |-> snum, bi_size |-> iosize,
                        bv_page |-> bi_io_vec(b, idx).bv_page,
                        bv_offset |-> bi_io_vec(b, idx).bv_offset + consumed,
                        bv_len |-> iosize]]

(***************************************************************************)
(* The bios the splitter is given: nsect sectors from sector s, their data *)
(* in segments of the lengths lens, each on a page of its own at offset    *)
(* off, after done segments the bio has already left behind (bi_idx).      *)
(* A segment holds whole sectors: eio_split_new_bio asserts as much        *)
(* (lines 1928 and 1931).                                                  *)
(***************************************************************************)
SplitInput(s, nsect, done, off, lens) ==
    [bi_sector |-> s, bi_size |-> to_bytes(nsect), bi_idx |-> done,
     bi_io_vec |-> [k \in 1 .. done + Len(lens) |->
                       IF k <= done
                       THEN [bv_page |-> k, bv_offset |-> 0, bv_len |-> to_bytes(1)]
                       ELSE [bv_page |-> k, bv_offset |-> off,
                             bv_len |-> lens[k - done]]]]

(***************************************************************************)
(* eio_overlap_split_bio, lines 1872-1889: the count of sub-bios, the two  *)
(* allocations, the container and the start of the walk.  A failed         *)
(* allocation completes the bio with -ENOMEM (lines 1875-1884).            *)
(***************************************************************************)
OverlapSplitBio ==
    /\ split.pc = "idle"
    /\ \E nsect \in 2 .. MaxSplit, done \in 0 .. 1, off \in 0 .. 1, alloc_ok \in BOOLEAN :
       \E s \in 0 .. DiskSectors - nsect,
          lens \in Cuts(to_bytes(nsect), MaxVecs, to_bytes(1)) :
        LET b == SplitInput(s, nsect, done, off, lens)
            nbios == eio_to_sector(b.bi_size)
        IN
        /\ IF ~alloc_ok
           THEN /\ split' = [IdleSplit EXCEPT !.pc = "returned", !.nbios = nbios,
                                 !.oom = TRUE, !.endio = 1, !.error = -ENOMEM,
                                 !.orig = b]
                /\ bc' = IdleBc
           ELSE /\ split' = [IdleSplit EXCEPT !.pc = "walk", !.nbios = nbios,
                                 !.orig = b, !.snum = b.bi_sector,
                                 !.bvec_idx = b.bi_idx, !.bvec_consumed = 0]
                /\ bc' = [IdleBc EXCEPT !.bc_holdcount = split_holdcount(nbios),
                                        !.st = "live"]
    /\ UNCHANGED <<sub, ttc_vars, io_vars, un_vars>>

(***************************************************************************)
(* eio_overlap_split_bio, lines 1890-1907: one turn of the loop.  When     *)
(* bio_alloc fails the sub-bios made so far are put, the original bio is   *)
(* completed with -ENOMEM and the container freed; after the last sub-bio  *)
(* the resubmission starts (line 1909).                                    *)
(***************************************************************************)
SplitNewBio ==
    /\ split.pc = "walk"
    /\ \E alloc_ok \in BOOLEAN :
        IF ~alloc_ok
        THEN /\ split' = [split EXCEPT !.pc = "returned", !.oom = TRUE, !.endio = 1,
                              !.error = -ENOMEM, !.bioptr = <<>>]
             /\ bc' = [IdleBc EXCEPT !.st = "freed"]
             /\ UNCHANGED sub
        ELSE LET r == eio_split_new_bio(split.orig,
                          [bvec_idx |-> split.bvec_idx,
                           bvec_consumed |-> split.bvec_consumed,
                           bug |-> split.bug], split.snum)
                 last == Len(split.bioptr) + 1 = split.nbios
             IN  /\ split' = [split EXCEPT
                        !.bioptr = Append(@, r.cbio), !.snum = @ + 1,
                        !.bvec_idx = r.bvec_idx, !.bvec_consumed = r.bvec_consumed,
                        !.bug = r.bug,
                        !.pc = IF last THEN "submit" ELSE "walk",
                        !.i = IF last THEN 1 ELSE @]
                 /\ sub' = IF last
                           THEN [j \in 1 .. MaxSplit |->
                                    IF j <= split.nbios THEN "created" ELSE "none"]
                           ELSE sub
                 /\ UNCHANGED bc
    /\ UNCHANGED <<ttc_vars, io_vars, un_vars>>

InitWalk == InitCaches({})

NextWalk ==
    \/ OverlapSplitBio
    \/ SplitNewBio
    \/ SplitSubmit

SpecWalk == InitWalk /\ [][NextWalk]_vars

\* the bytes of a segment, and of a sub-bio, in order: <<page, offset in page>>
SegBytes(page, offset, len) == [j \in 1 .. len |-> <<page, offset + j - 1>>]

\* the data of bio b, from segment k on, in order
RECURSIVE BioBytes(_, _)
BioBytes(b, k) ==
    IF k >= bi_vcnt(b) THEN <<>>
    ELSE SegBytes(bi_io_vec(b, k).bv_page, bi_io_vec(b, k).bv_offset,
                  bi_io_vec(b, k).bv_len) \o BioBytes(b, k + 1)

\* the i-th sector of data of bio b, i from 0
SectorOfData(b, i) ==
    SubSeq(BioBytes(b, b.bi_idx), to_bytes(i) + 1, to_bytes(i + 1))

\* the splitter has taken a bio and its allocations have not failed
Splitting == split.pc \in {"walk", "submit", "returned"} /\ ~split.oom

(***************************************************************************)
(* C35.  For a bio of N sectors from sector s whose segments hold whole    *)
(* sectors, the splitter sets the container's holder count to N before it  *)
(* makes the first sub-bio, and the i-th sub-bio it makes (i from 0) is    *)
(* sector s + i with one segment of one sector: the bytes i * iosize to    *)
(* (i + 1) * iosize - 1 of the original's data, counted across the         *)
(* original's segments.  When the resubmission starts there are exactly N  *)
(* sub-bios, so every sector of the original is covered once and no        *)
(* assertion of eio_split_new_bio has tripped.                             *)
(***************************************************************************)
C35_OneSubBioPerSector ==
    Splitting =>
        LET b == split.orig
            N == b.bi_size \div to_bytes(1)
        IN  /\ split.nbios = N
            /\ bc.bc_holdcount = N
            /\ ~split.bug
            /\ Len(split.bioptr) <= N
            /\ split.pc \in {"submit", "returned"} => Len(split.bioptr) = N
            /\ \A i \in 0 .. Len(split.bioptr) - 1 :
                LET cbio == split.bioptr[i + 1] IN
                /\ cbio.bi_sector = b.bi_sector + i
                /\ cbio.bi_size = to_bytes(1)
                /\ SegBytes(cbio.bv_page, cbio.bv_offset, cbio.bv_len)
                       = SectorOfData(b, i)

\* three sub-bios are about to be resubmitted: the second lies in the first
\* segment after the first sub-bio's sector, the third in the next segment
C35_Witness ==
    /\ split.pc = "submit" /\ ~split.oom
    /\ Len(split.bioptr) = 3
    /\ split.orig.bi_idx = 1
    /\ bi_vcnt(split.orig) = 3
    /\ bi_io_vec(split.orig, 1).bv_len = to_bytes(2)
    /\ bi_io_vec(split.orig, 1).bv_offset = 1
    /\ split.bioptr[2].bv_page = split.bioptr[1].bv_page
    /\ split.bioptr[2].bv_offset = 1 + to_bytes(1)
    /\ split.bioptr[3].bv_page # split.bioptr[1].bv_page
    /\ split.bioptr[3].bv_offset = 1

=========================================================================
